---- MODULE Spec2Model ----
(***************************************************************************)
(* compose-status: the reconciliation engine of status.Controller and the  *)
(* loop of cmd/compose-status that drives it.                              *)
(*                                                                         *)
(* Strings are sequences of one-character strings, so that fmt.Sprintf,    *)
(* strings.ToLower and the host regular expression are computed character  *)
(* by character. Time is counted in seconds; time.Time values are the      *)
(* reading of the clock.                                                   *)
(***************************************************************************)
EXTENDS Integers, Sequences, FiniteSets, TLC

\* ------------------------------------------------------------------ bounds
\* largest reading of the clock
MaxTime == 2
\* longest list ListContainers returns
MaxContainers == 2
\* largest value given to the clean-cutoff flag
MaxCutoffArg == 1
\* most units in a unit map that ServeHTTP is given
MaxUnits == 3
\* largest capacity of a history buffer that is pushed
MaxCapacity == 3
\* most values pushed into it, and the largest of them
MaxPushes == 4

\* ----------------------------------------------------------------- strings
Upper == <<"A","B","C","D","E","F","G","H","I","J","K","L","M",
           "N","O","P","Q","R","S","T","U","V","W","X","Y","Z">>
Lower == <<"a","b","c","d","e","f","g","h","i","j","k","l","m",
           "n","o","p","q","r","s","t","u","v","w","x","y","z">>

\* strings.ToLower on one character
ToLowerChar(ch) ==
    IF \E i \in DOMAIN Upper : Upper[i] = ch
    THEN Lower[CHOOSE i \in DOMAIN Upper : Upper[i] = ch]
    ELSE ch

\* strings.ToLower
ToLower(s) == [i \in DOMAIN s |-> ToLowerChar(s[i])]

\* the text s has the text p at position i (1-based)
HasAt(s, p, i) ==
    /\ i >= 1
    /\ i + Len(p) - 1 <= Len(s)
    /\ \A k \in 1..Len(p) : s[i + k - 1] = p[k]

\* the backspace character, which is what "\b" denotes in the Go interpreted
\* string literal of hostMatch, and the backquote
Backspace == "<BS>"
Backquote == "<BQ>"

\* the characters of the model in the order of their codes
Ascii == <<Backspace, "\n", " ", "\"", "&", "(", ")", "*", ",", "-", ".", "/",
           "0","1","2","3","4","5","6","7","8","9", ":", ";", "<", "=", ">",
           "A","B","C","D","E","F","G","H","I","J","K","L","M",
           "N","O","P","Q","R","S","T","U","V","W","X","Y","Z", "\\", "_", Backquote,
           "a","b","c","d","e","f","g","h","i","j","k","l","m",
           "n","o","p","q","r","s","t","u","v","w","x","y","z", "{", "}">>

Ord(ch) == CHOOSE i \in DOMAIN Ascii : Ascii[i] = ch

\* a < b of two Go strings: the first character that differs decides, and a
\* proper prefix is smaller
StrLess(a, b) ==
    \E k \in 1..(Len(b)) :
        /\ k <= Len(a) + 1
        /\ \A n \in 1..(k - 1) : a[n] = b[n]
        /\ \/ k = Len(a) + 1
           \/ Ord(a[k]) < Ord(b[k])

\* "Host:", the literal prefix of hostMatch
HostPrefix == <<"H","o","s","t",":">>

\* the characters that end the lazy group of hostMatch
HostStop == {",", ";", Backspace}

\* hostMatch = "Host:(.+?)(?:,|;|$|\b)" tried at position i: the ends j of the
\* group, which holds at least one character, none of them a newline, and is
\* followed by a stop character or by the end of the text
HostGroupEnds(label, i) ==
    {j \in (i + Len(HostPrefix))..Len(label) :
        /\ \A k \in (i + Len(HostPrefix))..j : label[k] # "\n"
        /\ \/ j = Len(label)
           \/ label[j + 1] \in HostStop}

\* the positions at which hostMatch matches
HostMatchAt(label) ==
    {i \in 1..Len(label) :
        HasAt(label, HostPrefix, i) /\ HostGroupEnds(label, i) # {}}

Min(S) == CHOOSE x \in S : \A y \in S : x <= y

\* hostFromLabel: the first group of the leftmost match, the lazy group
\* taking the shortest text
hostFromLabel(label) ==
    IF HostMatchAt(label) = {}
    THEN << >>
    ELSE LET i == Min(HostMatchAt(label))
             j == Min(HostGroupEnds(label, i))
         IN  SubSeq(label, i + Len(HostPrefix), j)


Digits == {"0","1","2","3","4","5","6","7","8","9"}

\* the number a text of digits denotes
RECURSIVE DigitsValue(_)
DigitsValue(s) ==
    IF s = << >> THEN 0
    ELSE 10 * DigitsValue(SubSeq(s, 1, Len(s) - 1))
         + (Ord(s[Len(s)]) - Ord("0"))

\* the slice with v inserted before its first element that is not smaller
RECURSIVE InsertSorted(_, _)
InsertSorted(sorted, v) ==
    IF sorted = << >> \/ ~StrLess(Head(sorted), v)
    THEN <<v>> \o sorted
    ELSE <<Head(sorted)>> \o InsertSorted(Tail(sorted), v)

\* sort.Strings: the strings in increasing order
RECURSIVE SortStrings(_)
SortStrings(list) ==
    IF list = << >> THEN << >>
    ELSE InsertSorted(SortStrings(Tail(list)), Head(list))

\* ------------------------------------------------------------------- maps
EmptyMap == [k \in {} |-> k]

\* m[k] = v of a Go map
Put(m, k, v) == [x \in DOMAIN m \cup {k} |-> IF x = k THEN v ELSE m[x]]

\* delete(m, k)
Delete(m, k) == [x \in DOMAIN m \ {k} |-> m[x]]

\* the orders in which a range over a map with the keys S visits them
Orders(S) ==
    {o \in [1..Cardinality(S) -> S] :
        \A a, b \in DOMAIN o : a # b => o[a] # o[b]}

\* ------------------------------------------------- what the engine reports
\* text of labels, names and statuses
sProject == <<"p">>
sWeb == <<"/","w">>
sDb == <<"/","d">>
sOther == <<"/","x">>
sUp == <<"U","p">>
sUpHour == <<"U","p"," ","1","h">>
sRuleWeb == <<"H","o","s","t",":","w",".","i","o">>
sRuleDb == <<"H","o","s","t",":","d",".","i","o",",","e",".","i","o">>
sRuleNone == <<"P","a","t","h",":","/">>

\* the label keys GetProjects reads; a label key is the sequence of the parts
\* that its dots separate
labelProject == <<"com", "docker", "compose", "project">>
labelRule == <<"traefik", "frontend", "rule">>
labelWebRule == <<"traefik", "web", "frontend", "rule">>

\* docker.APIContainers, the fields GetProjects reads; ID is the engine's
\* identifier, which changes when a container is created again
APIContainer(id, names, status, labels) ==
    [ID |-> id, Names |-> names, Status |-> status, Labels |-> labels]

rawWeb ==
    APIContainer("c1", <<sWeb>>, sUp,
                 [k \in {labelProject, labelRule} |->
                    IF k = labelProject THEN sProject ELSE sRuleWeb])
\* the web container created again: a new ID, no rule label
rawWebAgain ==
    APIContainer("c2", <<sWeb>>, sUpHour,
                 [k \in {labelProject} |-> sProject])
rawDb ==
    APIContainer("c3", <<sDb>>, sUp,
                 [k \in {labelProject, labelWebRule, labelRule} |->
                    IF k = labelProject THEN sProject
                    ELSE IF k = labelWebRule THEN sRuleDb ELSE sRuleNone])
\* a container of the project that the engine reports without a name
rawNameless ==
    APIContainer("c4", << >>, sUp, [k \in {labelProject} |-> sProject])
\* containers that are not part of a compose project
rawUnlabelled ==
    APIContainer("c5", <<sOther>>, sUp, EmptyMap)
rawUnlabelledNameless ==
    APIContainer("c6", << >>, sUp, EmptyMap)

RawContainers ==
    {rawWeb, rawWebAgain, rawDb, rawNameless, rawUnlabelled,
     rawUnlabelledNameless}

\* the engine never lists one container twice nor two containers of one name
Compatible(a, b) ==
    /\ a.ID # b.ID
    /\ \/ a.Names = << >>
       \/ b.Names = << >>
       \/ a.Names[1] # b.Names[1]

\* the lists ListContainers can return
Snapshots ==
    UNION {{s \in [1..n -> RawContainers] :
                \A a, b \in 1..n : a # b => Compatible(s[a], s[b])} :
           n \in 0..MaxContainers}


\* --------------------------------------------------------------- the state
VARIABLES
    flagGiven,      \* whether -clean-cutoff (or CS_CLEAN_CUTOFF) was given
    cleanCutoff,    \* Controller.cleanCutoff, in seconds
    LastProjects,   \* Controller.LastProjects: Container.ID() -> Container
    clock,          \* what time.Now() returns, in seconds
    pc,             \* where the goroutine of main that runs the passes is
    running,        \* the calls of GetProjects that have not returned
    containers,     \* GetProjects: the list ListContainers returned
    idx,            \* GetProjects: the position of the first loop
    seenIDs,        \* GetProjects: seenIDs
    cutoff,         \* GetProjects: cutoff
    todo,           \* GetProjects: the keys the second loop has yet to visit
    err,            \* what the last call of GetProjects returned
    pre,            \* history: LastProjects when the pass in hand was called
    obs,            \* history: Container.ID() -> the record last inserted,
                    \* for the keys not deleted since
    evicted,        \* history: the keys deleted and not inserted since
    gone,           \* history: evicted when the pass in hand was called
    prevPairs,      \* history: the (project, name) pairs listed by the pass
                    \* before the pass in hand, if it returned nil
    served          \* history: the projects of the last page rendered since
                    \* the pass in hand was called, if there is one

\* the state of the revision of the controller that has Refresh
VARIABLES
    lastGroups,     \* Controller.lastGroups: group -> the names of its projects
    lastProjects,   \* Controller.lastProjects: project -> its containers
    lastStats,      \* Controller.lastStats
    histCPU,        \* Controller.histCPU
    histTemp,       \* Controller.histTemp
    refreshErr,     \* what the last call of Refresh returned
    scanInterval,   \* Controller.scanInterval, in seconds
    refreshList,    \* history: the list ListContainers gave the last call
                    \* of Refresh, if it gave one
    home,           \* history: the groups of the last page serveHome has
                    \* rendered since the last call of Refresh, if any
    options,        \* history: the options NewController was given
    pushes,         \* history: the values Push has given hist.add
    dockerContainers,   \* Refresh: the list it ranges over
    loopAt,             \* Refresh: the position of its loop in the list
    groupedProjects,    \* Refresh: the projects it has put into a group
    tmplData,           \* serveHome: the Groups of the request in hand, if
                        \* there is one: whether they are the map that
                        \* lastGroups holds now (alias), what they hold if
                        \* they are a map of an earlier pass, and whether
                        \* the handler has sorted them
    answers,            \* history: what the network answered the probes of
                        \* the turns of the loop of the last Refresh
    before,             \* history: lastProjects as the last Refresh found
                        \* it
    sampled,            \* history: what host, load, mem and cpu gave the
                        \* last Refresh that sampled them
    hostLabel,          \* parseLabelHost: the label it is given, in its
                        \* parts
    parsed              \* parseLabelHost: what it has returned, if it has
                        \* been called

\* the save file and the goroutines of main that read and write it
VARIABLES
    saveFile,       \* what the file at *argSavePath holds, if it exists
    save,           \* main: save, what ReadFile gave
    lastData,       \* the signal handler: lastData, once marshalled
    oldFile,        \* history: saveFile when the signal arrived
    savedMap        \* history: LastProjects when the signal arrived

diskVars == <<saveFile, save, lastData, oldFile, savedMap>>

refreshVars == <<lastGroups, lastProjects, lastStats, histCPU, histTemp,
                 refreshErr, scanInterval, refreshList, home, options,
                 pushes, dockerContainers, loopAt, groupedProjects, tmplData,
                 answers, before, sampled, hostLabel, parsed>>

stepVars == <<dockerContainers, loopAt, groupedProjects, tmplData, answers,
              before, sampled, hostLabel, parsed>>

vars == <<flagGiven, cleanCutoff, LastProjects, clock, pc, running,
          containers, idx, seenIDs, cutoff, todo, err, pre, obs, evicted,
          gone, prevPairs, served, refreshVars, diskVars>>

passVars == <<containers, idx, seenIDs, cutoff, todo>>
histVars == <<pre, obs, evicted, gone, prevPairs, served>>

\* --------------------------------------------------------- the controller
\* Stats{}; the CPU percentage is counted in hundredths, the temperature is
\* a fraction <<numerator, denominator>>, the uptime is counted in seconds
ZeroStats ==
    [Load1 |-> 0, Load5 |-> 0, Load15 |-> 0, MemUsed |-> 0, MemTotal |-> 0,
     CPU |-> 0, CPUTemp |-> <<0, 1>>, Uptime |-> 0]

\* a label in its parts: what stands before the rule, the rule up to its
\* argument, the argument, and what stands after it; here the empty label
NoLabel == [before |-> << >>, rule |-> << >>, body |-> << >>, after |-> << >>]

\* host, load, mem and cpu give nothing: host.Uptime gives 0, load.Avg and
\* mem.VirtualMemory give nil, cpu.Percent and host.SensorsTemperatures give
\* empty lists
NoMetrics ==
    [uptime |-> 0, load |-> << >>, memory |-> << >>, cpus |-> << >>,
     temps |-> << >>]

\* the default of the -clean-cutoff flag, which is also what giving the flag
\* the value 0 sets
argCleanCutoffDefault == 0

\* the cleanCutoff NewController sets before it runs the options: 3 days
DefaultCleanCutoff == 3 * 24 * 60 * 60

\* the default of Controller.groupLabel; main passes no WithGroupLabel
groupLabel == labelProject

\* ------------------------------------------------------------ the save file
\* the decimal text of a number n >= 0
DigitChars == <<"0","1","2","3","4","5","6","7","8","9">>

RECURSIVE DigitsOf(_)
DigitsOf(n) ==
    IF n < 10 THEN <<DigitChars[n + 1]>>
    ELSE DigitsOf(n \div 10) \o <<DigitChars[(n % 10) + 1]>>

\* encoding/json: what a character of a string is written as
EscapeChar(ch) ==
    CASE ch = "\"" -> <<"\\", "\"">>
      [] ch = "\\" -> <<"\\", "\\">>
      [] ch = "\n" -> <<"\\", "n">>
      [] ch = "<" -> <<"\\", "u", "0", "0", "3", "c">>
      [] ch = ">" -> <<"\\", "u", "0", "0", "3", "e">>
      [] ch = "&" -> <<"\\", "u", "0", "0", "2", "6">>
      [] OTHER -> <<ch>>

RECURSIVE Escape(_)
Escape(s) ==
    IF s = << >> THEN << >> ELSE EscapeChar(Head(s)) \o Escape(Tail(s))

\* a string as JSON text
Quote(s) == <<"\"">> \o Escape(s) \o <<"\"">>

\* the names of the fields of Container
fName == <<"N", "a", "m", "e">>
fStatus == <<"S", "t", "a", "t", "u", "s">>
fLink == <<"L", "i", "n", "k">>
fLastSeen == <<"L", "a", "s", "t", "S", "e", "e", "n">>
fIsDown == <<"I", "s", "D", "o", "w", "n">>
fProject == <<"P", "r", "o", "j", "e", "c", "t">>

\* time.Time.MarshalJSON: a quoted text of the time, here its seconds in
\* decimal
MarshalTime(t) == Quote(DigitsOf(t))

MarshalBoolAlwaysFalse(b) == <<"f", "a", "l", "s", "e">>

MarshalBool(b) == IF b THEN <<"t", "r", "u", "e">> ELSE <<"f", "a", "l", "s", "e">>

\* json.Marshal of a *Container: the exported fields in the order of the
\* struct
MarshalContainer(c) ==
    <<"{">> \o Quote(fName) \o <<":">> \o Quote(c.Name)
    \o <<",">> \o Quote(fStatus) \o <<":">> \o Quote(c.Status)
    \o <<",">> \o Quote(fLink) \o <<":">> \o Quote(c.Link)
    \o <<",">> \o Quote(fLastSeen) \o <<":">> \o MarshalTime(c.LastSeen)
    \o <<",">> \o Quote(fIsDown) \o <<":">> \o MarshalBool(c.IsDown)
    \o <<",">> \o Quote(fProject) \o <<":">> \o Quote(c.Project)
    \o <<"}">>

\* the entries of m for keys, with commas between
RECURSIVE MarshalEntries(_, _)
MarshalEntries(m, keys) ==
    IF keys = << >> THEN << >>
    ELSE Quote(Head(keys)) \o <<":">> \o MarshalContainer(m[Head(keys)])
         \o (IF Len(keys) > 1 THEN <<",">> ELSE << >>)
         \o MarshalEntries(m, Tail(keys))

\* json.Marshal of map[string]*Container: the keys in increasing order
Marshal(m) ==
    <<"{">>
    \o MarshalEntries(m, SortStrings(CHOOSE o \in Orders(DOMAIN m) : TRUE))
    \o <<"}">>

\* the results of the decoder: whether the text was as expected, where the
\* rest of it starts, and the value read
Failed == [ok |-> FALSE, next |-> 0, value |-> << >>]
Parsed(next, value) == [ok |-> TRUE, next |-> next, value |-> value]

\* the character an escape at position i of t stands for
UnescapeAt(t, i) ==
    IF i + 1 > Len(t) THEN Failed
    ELSE IF t[i + 1] \in {"\"", "\\", "/"} THEN Parsed(i + 2, t[i + 1])
    ELSE IF t[i + 1] = "n" THEN Parsed(i + 2, "\n")
    ELSE IF HasAt(t, <<"u", "0", "0", "3", "c">>, i + 1) THEN Parsed(i + 6, "<")
    ELSE IF HasAt(t, <<"u", "0", "0", "3", "e">>, i + 1) THEN Parsed(i + 6, ">")
    ELSE IF HasAt(t, <<"u", "0", "0", "2", "6">>, i + 1) THEN Parsed(i + 6, "&")
    ELSE Failed

\* the string whose characters start at i and that a quote ends; u is what
\* the escape at i stands for
RECURSIVE ScanString(_, _, _)
RECURSIVE ScanEscape(_, _, _)
ScanEscape(t, u, acc) ==
    IF u.ok THEN ScanString(t, u.next, Append(acc, u.value)) ELSE Failed

ScanString(t, i, acc) ==
    IF i > Len(t) \/ t[i] = "\n" THEN Failed
    ELSE IF t[i] = "\"" THEN Parsed(i + 1, acc)
    ELSE IF t[i] = "\\" THEN ScanEscape(t, UnescapeAt(t, i), acc)
    ELSE ScanString(t, i + 1, Append(acc, t[i]))

ParseString(t, i) ==
    IF HasAt(t, <<"\"">>, i) THEN ScanString(t, i + 1, << >>) ELSE Failed

\* time.Time.UnmarshalJSON: the quoted text r must be a time
TimeOf(r) ==
    IF r.ok /\ r.value # << >>
       /\ \A k \in DOMAIN r.value : r.value[k] \in Digits
    THEN Parsed(r.next, DigitsValue(r.value))
    ELSE Failed

ParseTime(t, i) == TimeOf(ParseString(t, i))

ParseBool(t, i) ==
    IF HasAt(t, <<"t", "r", "u", "e">>, i) THEN Parsed(i + 4, TRUE)
    ELSE IF HasAt(t, <<"f", "a", "l", "s", "e">>, i) THEN Parsed(i + 5, FALSE)
    ELSE Failed

\* the value of a field from position i
ParseValue(t, i, kind) ==
    CASE kind = "string" -> ParseString(t, i)
      [] kind = "time" -> ParseTime(t, i)
      [] kind = "bool" -> ParseBool(t, i)

\* from position i: the text lead, the name of a field, a colon and its
\* value
ParseField(t, i, lead, name, kind) ==
    IF HasAt(t, lead \o Quote(name) \o <<":">>, i)
    THEN ParseValue(t, i + Len(lead) + Len(Quote(name)) + 1, kind)
    ELSE Failed

\* the fields of Container in the order of the struct, and what they hold
Fields ==
    <<<<fName, "string">>, <<fStatus, "string">>, <<fLink, "string">>,
      <<fLastSeen, "time">>, <<fIsDown, "bool">>, <<fProject, "string">>>>

\* the fields from the k-th on, from position i; f is the field read last
RECURSIVE ParseFields(_, _, _, _)
RECURSIVE NextField(_, _, _, _)
NextField(t, f, k, acc) ==
    IF f.ok THEN ParseFields(t, f.next, k + 1, Append(acc, f.value))
    ELSE Failed

ParseFields(t, i, k, acc) ==
    IF k > Len(Fields) THEN Parsed(i, acc)
    ELSE NextField(t, ParseField(t, i, IF k = 1 THEN <<"{">> ELSE <<",">>,
                                 Fields[k][1], Fields[k][2]),
                   k, acc)

\* the Container of the fields r, which a brace must end
ContainerOf(t, r) ==
    IF r.ok /\ HasAt(t, <<"}">>, r.next)
    THEN Parsed(r.next + 1,
                [Name |-> r.value[1], Project |-> r.value[6],
                 Status |-> r.value[2], Link |-> r.value[3],
                 LastSeen |-> r.value[4], IsDown |-> r.value[5]])
    ELSE Failed

\* a Container as json.Marshal writes it, from position i
ParseContainer(t, i) == ContainerOf(t, ParseFields(t, i, 1, << >>))

\* the entries of the object from position i, added to m: the key k, a
\* colon, the Container c, and a comma or the closing brace
RECURSIVE ParseEntries(_, _, _)
RECURSIVE EntriesAfter(_, _, _, _)
EntryOf(t, k) ==
    IF k.ok /\ HasAt(t, <<":">>, k.next)
    THEN ParseContainer(t, k.next + 1) ELSE Failed

EntriesAfter(t, k, c, m) ==
    IF ~c.ok THEN Failed
    ELSE IF HasAt(t, <<",">>, c.next)
    THEN ParseEntries(t, c.next + 1, Put(m, k.value, c.value))
    ELSE IF HasAt(t, <<"}">>, c.next)
    THEN Parsed(c.next + 1, Put(m, k.value, c.value))
    ELSE Failed

EntryAt(t, k, m) == EntriesAfter(t, k, EntryOf(t, k), m)

ParseEntries(t, i, m) == EntryAt(t, ParseString(t, i), m)

\* the map a text holds; the texts that get here are those json.Marshal
\* has written, whole or cut, and the files of InitialFiles
ParseObject(t) ==
    IF HasAt(t, <<"{", "}">>, 1) THEN Parsed(3, EmptyMap)
    ELSE IF HasAt(t, <<"{">>, 1) THEN ParseEntries(t, 2, EmptyMap)
    ELSE Failed

\* r has read the whole text
Whole(t, r) == r.ok /\ r.next = Len(t) + 1

\* whether json.Unmarshal accepts the text
Decodes(t) == Whole(t, ParseObject(t))

\* the entries r are stored into m, if r is the whole text
Stored(data, r, m) ==
    IF ~Whole(data, r)
    THEN [failed |-> TRUE, value |-> m]
    ELSE [failed |-> FALSE,
          value |-> [k \in DOMAIN m \cup DOMAIN r.value |->
                       IF k \in DOMAIN r.value THEN r.value[k] ELSE m[k]]]

\* json.Unmarshal(data, &m): the entries of the text are stored into m
Unmarshal(data, m) == Stored(data, ParseObject(data), m)

\* WithCleanCutoff(dur) run on the controller c
WithCleanCutoff(c, dur) == [c EXCEPT !.cleanCutoff = dur]

\* mutant: the option leaves the map alone
WithResumeDropsFile(c, file) == [cont |-> c, failed |-> FALSE]

\* WithResume(file) run on the controller c: the controller, and whether
\* the option returned an error
WithResume(c, file) ==
    IF Len(file) <= 0
    THEN [cont |-> c, failed |-> FALSE]
    ELSE LET r == Unmarshal(file, c.LastProjects)
         IN  [cont |-> [c EXCEPT !.LastProjects = r.value],
              failed |-> r.failed]

\* NewController as main calls it, arg being *argCleanCutoff and data what
\* main has read of the save file: the defaults, then the options in the
\* order given
NewController(arg, data) ==
    LET cont == [LastProjects |-> EmptyMap,
                 cleanCutoff |-> DefaultCleanCutoff]
    IN  WithResume(WithCleanCutoff(cont, arg), data)

\* Container.ID
ID(c) == c.Project \o <<"_","_","_">> \o c.Name

Init ==
    /\ flagGiven \in BOOLEAN
    /\ \E v \in 1..MaxCutoffArg :
         LET arg == IF flagGiven THEN v ELSE argCleanCutoffDefault
             cont == NewController(arg, << >>).cont
         IN  /\ cleanCutoff = cont.cleanCutoff
             /\ LastProjects = cont.LastProjects
    /\ clock = 0
    /\ pc = "loop"
    /\ running = 0
    /\ containers = << >>
    /\ idx = 0
    /\ seenIDs = {}
    /\ cutoff = 0
    /\ todo = {}
    /\ err = "none"
    /\ pre = EmptyMap
    /\ obs = EmptyMap
    /\ evicted = {}
    /\ gone = {}
    /\ prevPairs = [nil |-> FALSE, pairs |-> {}]
    /\ served = << >>
    /\ saveFile = << >>
    /\ save = << >>
    /\ lastData = << >>
    /\ oldFile = << >>
    /\ savedMap = << >>
    /\ lastGroups = EmptyMap
    /\ lastProjects = EmptyMap
    /\ lastStats = ZeroStats
    /\ histCPU = << >>
    /\ histTemp = << >>
    /\ refreshErr = "none"
    /\ refreshList = << >>
    /\ scanInterval = 0
    /\ home = << >>
    /\ options = << >>
    /\ pushes = << >>
    /\ dockerContainers = << >>
    /\ loopAt = 0
    /\ groupedProjects = {}
    /\ tmplData = << >>
    /\ answers = << >>
    /\ before = EmptyMap
    /\ sampled = NoMetrics
    /\ hostLabel = NoLabel
    /\ parsed = << >>

\* ------------------------------------------------------------ GetProjects
\* the Container GetProjects builds for rawTain
NewContainer(rawTain, now) ==
    LET tain == [Name |-> rawTain.Names[1],
                 Project |-> rawTain.Labels[groupLabel],
                 Status |-> ToLower(rawTain.Status),
                 LastSeen |-> now,
                 Link |-> << >>,
                 IsDown |-> FALSE]
        web == IF labelWebRule \in DOMAIN rawTain.Labels
               THEN [tain EXCEPT !.Link = hostFromLabel(rawTain.Labels[labelWebRule])]
               ELSE tain
    IN  IF labelRule \in DOMAIN rawTain.Labels
        THEN [web EXCEPT !.Link = hostFromLabel(rawTain.Labels[labelRule])]
        ELSE web

\* mutant: a unit that goes down loses its status, as in the revisions that
\* showed a unit as down when its status was empty
MarkDownClearsStatus(tain) ==
    [tain EXCEPT !.IsDown = TRUE, !.Status = << >>]

\* tain.IsDown = true
MarkDown(tain) == [tain EXCEPT !.IsDown = TRUE]

\* mutant: a unit whose LastSeen is the cutoff is expired too
ExpiredAtCutoff(tain, cut) == tain.LastSeen <= cut

\* mutant: tain.LastSeen.After(cutoff)
ExpiredAfterCutoff(tain, cut) == tain.LastSeen > cut

\* tain.LastSeen.Before(cutoff)
Expired(tain, cut) == tain.LastSeen < cut

\* the (project, name) pairs of the containers of a list that carry the
\* project label and a name
Pairs(list) ==
    {<<list[k].Labels[groupLabel], list[k].Names[1]>> :
        k \in {n \in DOMAIN list :
                  /\ groupLabel \in DOMAIN list[n].Labels
                  /\ Len(list[n].Names) > 0}}

\* mutant: every tick starts a pass in a goroutine of its own
CanCallOnTick == pc \in {"loop", "list", "range", "evict"}

\* main: the loop calls GetProjects when the last call has returned
CanCall == pc = "loop"

\* main.go:66, the call of GetProjects
LoopCall ==
    /\ CanCall
    /\ pc' = "list"
    /\ running' = running + 1
    /\ seenIDs' = {}
    /\ containers' = << >>
    /\ idx' = 0
    /\ todo' = {}
    /\ cutoff' = 0
    /\ pre' = LastProjects
    /\ gone' = evicted
    /\ prevPairs' = IF err = "nil"
                    THEN [nil |-> TRUE, pairs |-> Pairs(containers)]
                    ELSE [nil |-> FALSE, pairs |-> {}]
    /\ served' = << >>
    /\ UNCHANGED <<refreshVars, diskVars>>
    /\ UNCHANGED <<flagGiven, cleanCutoff, LastProjects, clock, err, obs,
                   evicted>>

\* GetProjects returns e to the loop, which logs it and sleeps
Return(e) ==
    /\ pc' = "sleep"
    /\ err' = e
    /\ running' = running - 1

\* mutant: the error of ListContainers is looked at after the second loop,
\* which has seen no container
ListContainersErrChecksLate ==
    /\ pc = "list"
    /\ Return("listing containers")
    /\ LastProjects' = [id \in DOMAIN LastProjects |-> MarkDown(LastProjects[id])]
    /\ UNCHANGED <<refreshVars, diskVars>>
    /\ UNCHANGED <<flagGiven, cleanCutoff, clock, passVars, histVars>>

\* ListContainers fails
ListContainersErr ==
    /\ pc = "list"
    /\ Return("listing containers")
    /\ UNCHANGED <<refreshVars, diskVars>>
    /\ UNCHANGED <<flagGiven, cleanCutoff, LastProjects, clock, passVars,
                   histVars>>

\* ListContainers returns one of Lists
ListContainersWith(Lists) ==
    /\ pc = "list"
    /\ \E snap \in Lists : containers' = snap
    /\ idx' = 1
    /\ pc' = "range"
    /\ UNCHANGED <<refreshVars, diskVars>>
    /\ UNCHANGED <<flagGiven, cleanCutoff, LastProjects, clock, running,
                   seenIDs, cutoff, todo, err, histVars>>

ListContainersOk == ListContainersWith(Snapshots)

\* one turn of the loop over containers
RangeContainers ==
    /\ pc = "range"
    /\ idx <= Len(containers)
    /\ LET rawTain == containers[idx] IN
         IF groupLabel \notin DOMAIN rawTain.Labels
         THEN /\ idx' = idx + 1
              /\ UNCHANGED <<LastProjects, seenIDs, pc, err, running, obs,
                             evicted>>
         ELSE IF Len(rawTain.Names) = 0
         THEN /\ Return("does not have a name")
              /\ UNCHANGED <<LastProjects, seenIDs, idx, obs, evicted>>
         ELSE LET tain == NewContainer(rawTain, clock) IN
              /\ seenIDs' = seenIDs \cup {ID(tain)}
              /\ LastProjects' = Put(LastProjects, ID(tain), tain)
              /\ obs' = Put(obs, ID(tain), tain)
              /\ evicted' = evicted \ {ID(tain)}
              /\ idx' = idx + 1
              /\ UNCHANGED <<pc, err, running>>
    /\ UNCHANGED <<refreshVars, diskVars>>
    /\ UNCHANGED <<flagGiven, cleanCutoff, clock, containers, cutoff, todo,
                   pre, gone, prevPairs, served>>

\* the loop over containers is done: cutoff is computed and the loop over
\* LastProjects begins
RangeDone ==
    /\ pc = "range"
    /\ idx > Len(containers)
    /\ cutoff' = clock - cleanCutoff
    /\ todo' = DOMAIN LastProjects
    /\ pc' = "evict"
    /\ UNCHANGED <<refreshVars, diskVars>>
    /\ UNCHANGED <<flagGiven, cleanCutoff, LastProjects, clock, running,
                   containers, idx, seenIDs, err, histVars>>

\* one turn of the loop over LastProjects, which Go visits in any order
RangeLastProjects ==
    /\ pc = "evict"
    /\ \E id \in todo :
         /\ todo' = todo \ {id}
         /\ IF Expired(LastProjects[id], cutoff)
            THEN /\ LastProjects' = Delete(LastProjects, id)
                 /\ evicted' = evicted \cup {id}
                 /\ obs' = Delete(obs, id)
            ELSE /\ evicted' = evicted
                 /\ obs' = obs
                 /\ IF id \notin seenIDs
                    THEN LastProjects' =
                            [LastProjects EXCEPT ![id] = MarkDown(@)]
                    ELSE LastProjects' = LastProjects
    /\ UNCHANGED <<refreshVars, diskVars>>
    /\ UNCHANGED <<flagGiven, cleanCutoff, clock, pc, running, containers,
                   idx, seenIDs, cutoff, err, pre, gone, prevPairs, served>>

\* GetProjects returns nil
ReturnNil ==
    /\ pc = "evict"
    /\ todo = {}
    /\ Return("nil")
    /\ UNCHANGED <<refreshVars, diskVars>>
    /\ UNCHANGED <<flagGiven, cleanCutoff, LastProjects, clock, passVars,
                   histVars>>

\* the scan interval main sleeps, in seconds; the flag's default is 5 and
\* every value >= 0 can be given
ScanIntervals == {0, 1}

\* main.go:69, time.Sleep: at least the scan interval passes
Sleep ==
    /\ pc = "sleep"
    /\ \E scan \in ScanIntervals, d \in 0..MaxTime :
         /\ d >= scan
         /\ clock + d <= MaxTime
         /\ clock' = clock + d
    /\ pc' = "loop"
    /\ UNCHANGED <<refreshVars, diskVars>>
    /\ UNCHANGED <<flagGiven, cleanCutoff, LastProjects, running, passVars,
                   err, histVars>>

\* time passes while a pass runs; GetProjects reads the clock in its first
\* loop and when that loop is done
Tick ==
    /\ pc = "range"
    /\ clock < MaxTime
    /\ clock' = clock + 1
    /\ UNCHANGED <<refreshVars, diskVars>>
    /\ UNCHANGED <<flagGiven, cleanCutoff, LastProjects, pc, running,
                   passVars, err, histVars>>

\* ---------------------------------------------------------------- ServeHTTP
\* sort.Search(len(current), func(i) { return current[i].Name >= name }) with
\* the search between i and j left to do; Go's indices start at 0
RECURSIVE Search(_, _, _, _)
\* mutant: the index is the end of the slice, whatever the names are
SearchEnd(current, name, i, j) == j

Search(current, name, i, j) ==
    IF i < j
    THEN LET h == (i + j) \div 2 IN
         IF StrLess(current[h + 1].Name, name)
         THEN Search(current, name, h + 1, j)
         ELSE Search(current, name, i, h)
    ELSE i

\* mutant: tain is put in front of the slice, wherever its name belongs
InsertFirst(current, tain) == <<tain>> \o current

\* the slice with tain inserted where sort.Search says
Insert(current, tain) ==
    LET i == Search(current, tain.Name, 0, Len(current))
    IN  SubSeq(current, 1, i) \o <<tain>> \o SubSeq(current, i + 1, Len(current))

\* projectMap after the loop over m has visited the keys of order
RECURSIVE Grouped(_, _, _)
Grouped(m, order, projectMap) ==
    IF order = << >>
    THEN projectMap
    ELSE LET tain == m[Head(order)]
             current == IF tain.Project \in DOMAIN projectMap
                        THEN projectMap[tain.Project]
                        ELSE << >>
         IN  Grouped(m, Tail(order),
                     Put(projectMap, tain.Project, Insert(current, tain)))

\* the projects a request can be shown when it reads the map m
Views(m) == {Grouped(m, o, EmptyMap) : o \in Orders(DOMAIN m)}

\* a request is served: ServeHTTP takes no lock and runs in the goroutine of
\* the request, so it reads LastProjects wherever the pass is. The request
\* modelled reads the whole map between two steps of the pass.
ServeHTTP ==
    /\ \E view \in Views(LastProjects) : served' = <<view>>
    /\ UNCHANGED <<refreshVars, diskVars>>
    /\ UNCHANGED <<flagGiven, cleanCutoff, LastProjects, clock, pc, running,
                   passVars, err, pre, obs, evicted, gone, prevPairs>>

GetProjects ==
    \/ ListContainersErr
    \/ ListContainersOk
    \/ RangeContainers
    \/ RangeDone
    \/ RangeLastProjects
    \/ ReturnNil

Next ==
    \/ LoopCall
    \/ GetProjects
    \/ Sleep
    \/ Tick

Spec == Init /\ [][Next]_vars

\* the passes and the requests of the dashboard
NextServe ==
    \/ Next
    \/ ServeHTTP

SpecServe == Init /\ [][NextServe]_vars

\* the passes over containers of several projects, no time passing while a
\* pass runs. The project label is any text and a name the engine reports
\* can hold more than one slash (the name of a legacy link is
\* /container/alias): rawJoined is the container "/w" of the project
\* "p___/w", rawLinked has the name "/w___/w" in the project "p"
sProjectJoined == <<"p","_","_","_","/","w">>
sWebLinked == <<"/","w","_","_","_","/","w">>
rawJoined ==
    APIContainer("c11", <<sWeb>>, sUp,
                 [k \in {labelProject} |-> sProjectJoined])
rawLinked ==
    APIContainer("c12", <<sWebLinked>>, sUpHour,
                 [k \in {labelProject} |-> sProject])
KeyContainers == {rawWeb, rawJoined, rawLinked}

KeySnapshots ==
    UNION {{s \in [1..n -> KeyContainers] :
                \A a, b \in 1..n : a # b => Compatible(s[a], s[b])} :
           n \in 0..MaxContainers}

ListContainersKeys == ListContainersWith(KeySnapshots)

NextKeys ==
    \/ LoopCall
    \/ ListContainersKeys
    \/ RangeContainers
    \/ RangeDone
    \/ RangeLastProjects
    \/ ReturnNil
    \/ Sleep

SpecKeys == Init /\ [][NextKeys]_vars

\* ServeHTTP alone, on the unit maps of two projects: a container whose name
\* begins with the name of another, and containers of a second project with
\* the names of the first
sWebOne == <<"/", "w", "_", "1">>
rawWebOne ==
    APIContainer("c8", <<sWebOne>>, sUp, [k \in {labelProject} |-> sProject])
rawWebQ ==
    APIContainer("c9", <<sWeb>>, sUp, [k \in {labelProject} |-> <<"q">>])
rawDbQ ==
    APIContainer("c10", <<sDb>>, sUpHour, [k \in {labelProject} |-> <<"q">>])

\* the unit maps a pass at time 0 and later passes can have left of no more
\* than MaxUnits of these containers: every unit under its ID, up or down
ViewMaps ==
    LET units == UNION {{NewContainer(r, 0), MarkDown(NewContainer(r, 0))} :
                          r \in {rawWeb, rawDb, rawWebOne, rawWebQ, rawDbQ}}
        keys == {ID(u) : u \in units}
    IN  UNION {{u \in [ks -> units] : \A k \in ks : ID(u[k]) = k} :
                 ks \in {x \in SUBSET keys : Cardinality(x) <= MaxUnits}}

InitView ==
    /\ flagGiven = FALSE
    /\ \E arg \in {argCleanCutoffDefault} :
         LET cont == NewController(arg, << >>).cont
         IN  cleanCutoff = cont.cleanCutoff
    /\ LastProjects \in ViewMaps
    /\ clock = MaxTime
    /\ pc = "loop"
    /\ running = 0
    /\ containers = << >>
    /\ idx = 0
    /\ seenIDs = {}
    /\ cutoff = 0
    /\ todo = {}
    /\ err = "none"
    /\ pre = EmptyMap
    /\ obs = EmptyMap
    /\ evicted = {}
    /\ gone = {}
    /\ prevPairs = [nil |-> FALSE, pairs |-> {}]
    /\ served = << >>
    /\ saveFile = << >>
    /\ save = << >>
    /\ lastData = << >>
    /\ oldFile = << >>
    /\ savedMap = << >>
    /\ lastGroups = EmptyMap
    /\ lastProjects = EmptyMap
    /\ lastStats = ZeroStats
    /\ histCPU = << >>
    /\ histTemp = << >>
    /\ refreshErr = "none"
    /\ refreshList = << >>
    /\ scanInterval = 0
    /\ home = << >>
    /\ options = << >>
    /\ pushes = << >>
    /\ dockerContainers = << >>
    /\ loopAt = 0
    /\ groupedProjects = {}
    /\ tmplData = << >>
    /\ answers = << >>
    /\ before = EmptyMap
    /\ sampled = NoMetrics
    /\ hostLabel = NoLabel
    /\ parsed = << >>

NextView == ServeHTTP

SpecView == InitView /\ [][NextView]_vars


\* ------------------------------------------------ saving and resuming
\* a container whose status and rule hold characters that JSON escapes
sQuoted == <<"/", "q">>
sUpQuoted == <<"U", "p", " ", "\"", "1", "\"", " ", "<", "b", ">", "\\">>
sRuleAmp == <<"H", "o", "s", "t", ":", "a", "&", "b">>
rawQuoted ==
    APIContainer("c7", <<sQuoted>>, sUpQuoted,
                 (labelProject :> sProject) @@ (labelRule :> sRuleAmp))

\* the records GetProjects can have left for a container
UnitsOf(rawTain) ==
    UNION {{NewContainer(rawTain, t), MarkDown(NewContainer(rawTain, t))} :
             t \in 0..MaxTime}

\* the unit maps with no more than MaxContainers units
UnitMaps ==
    LET units == UNION {UnitsOf(r) : r \in {rawWeb, rawDb, rawQuoted}}
        keys == {ID(u) : u \in units}
    IN  UNION {{u \in [ks -> units] : \A k \in ks : ID(u[k]) = k} :
                 ks \in {x \in SUBSET keys : Cardinality(x) <= MaxContainers}}

\* what the save path can hold when the program is started first: nothing,
\* an empty file, a text that was cut, and the empty map
InitialFiles == {<< >>, << << >> >>, << <<"{">> >>, << <<"{", "}">> >>}

\* ioutil.ReadFile with its error dropped: nil when the file is not there
ReadFile(f) == IF f = << >> THEN << >> ELSE f[1]

InitSave ==
    /\ flagGiven = FALSE
    /\ \E arg \in {argCleanCutoffDefault} :
         LET cont == NewController(arg, << >>).cont
         IN  cleanCutoff = cont.cleanCutoff
    /\ clock = MaxTime
    /\ pc \in {"off", "loop"}
    /\ LastProjects \in IF pc = "off" THEN {EmptyMap} ELSE UnitMaps
    /\ running = 0
    /\ containers = << >>
    /\ idx = 0
    /\ seenIDs = {}
    /\ cutoff = 0
    /\ todo = {}
    /\ err = "none"
    /\ pre = EmptyMap
    /\ obs = EmptyMap
    /\ evicted = {}
    /\ gone = {}
    /\ prevPairs = [nil |-> FALSE, pairs |-> {}]
    /\ served = << >>
    /\ saveFile \in InitialFiles
    /\ save = << >>
    /\ lastData = << >>
    /\ oldFile = << >>
    /\ savedMap = << >>
    /\ lastGroups = EmptyMap
    /\ lastProjects = EmptyMap
    /\ lastStats = ZeroStats
    /\ histCPU = << >>
    /\ histTemp = << >>
    /\ refreshErr = "none"
    /\ refreshList = << >>
    /\ scanInterval = 0
    /\ home = << >>
    /\ options = << >>
    /\ pushes = << >>
    /\ dockerContainers = << >>
    /\ loopAt = 0
    /\ groupedProjects = {}
    /\ tmplData = << >>
    /\ answers = << >>
    /\ before = EmptyMap
    /\ sampled = NoMetrics
    /\ hostLabel = NoLabel
    /\ parsed = << >>

\* what the steps of main and of the signal handler leave alone
SaveKeeps ==
    UNCHANGED <<flagGiven, clock, running, passVars, err, histVars,
                refreshVars>>

\* main up to the controller: the save file is read, its error dropped, and
\* NewController runs WithResume on what was read; its error is fatal
Main ==
    /\ pc = "off"
    /\ save' = ReadFile(saveFile)
    /\ LET made == NewController(cleanCutoff, ReadFile(saveFile))
       IN  IF made.failed
           THEN /\ pc' = "fatal"
                /\ UNCHANGED <<LastProjects, cleanCutoff>>
           ELSE /\ pc' = "boot"
                /\ LastProjects' = made.cont.LastProjects
                /\ cleanCutoff' = made.cont.cleanCutoff
    /\ UNCHANGED <<saveFile, lastData, oldFile, savedMap>>
    /\ SaveKeeps

\* main starts its goroutines and serves
Serve ==
    /\ pc = "boot"
    /\ pc' = "loop"
    /\ UNCHANGED <<LastProjects, cleanCutoff, diskVars>>
    /\ SaveKeeps

\* the signal handler receives a signal and marshals GetLastProjects(), the
\* loop of the passes being at one of Points
SignalAt(Points) ==
    /\ pc \in Points
    /\ pc' = "save"
    /\ lastData' = <<Marshal(LastProjects)>>
    /\ savedMap' = <<LastProjects>>
    /\ oldFile' = saveFile
    /\ UNCHANGED <<LastProjects, cleanCutoff, saveFile, save>>
    /\ SaveKeeps

Signal == SignalAt({"loop"})

\* ioutil.WriteFile opens the file with O_WRONLY|O_CREATE|O_TRUNC
WriteFileOpen ==
    /\ pc = "save"
    /\ pc' = "write"
    /\ saveFile' = << << >> >>
    /\ UNCHANGED <<LastProjects, cleanCutoff, save, lastData, oldFile,
                   savedMap>>
    /\ SaveKeeps

\* the file cannot be opened: WriteFile returns the error and log.Fatalf ends
\* the process
WriteFileErr ==
    /\ pc = "save"
    /\ pc' = "off"
    /\ UNCHANGED <<LastProjects, cleanCutoff, diskVars>>
    /\ SaveKeeps

\* ioutil.WriteFile writes: the system takes all that is left or a part of it
WriteFileWrite ==
    /\ pc = "write"
    /\ LET left == Len(lastData[1]) - Len(saveFile[1])
       IN  \E n \in {left, left \div 2} \ {0} :
             /\ saveFile' =
                  <<saveFile[1] \o SubSeq(lastData[1], Len(saveFile[1]) + 1,
                                          Len(saveFile[1]) + n)>>
             /\ pc' = IF n = left THEN "exit" ELSE "write"
    /\ UNCHANGED <<LastProjects, cleanCutoff, save, lastData, oldFile,
                   savedMap>>
    /\ SaveKeeps

\* os.Exit(0)
Exit ==
    /\ pc = "exit"
    /\ pc' = "off"
    /\ UNCHANGED <<LastProjects, cleanCutoff, diskVars>>
    /\ SaveKeeps

\* the process is killed while the handler saves
Kill ==
    /\ pc \in {"save", "write"}
    /\ pc' = "off"
    /\ UNCHANGED <<LastProjects, cleanCutoff, diskVars>>
    /\ SaveKeeps

NextSave ==
    Main \/ Serve \/ Signal \/ WriteFileOpen \/ WriteFileErr
    \/ WriteFileWrite \/ Exit \/ Kill

\* the save file over the runs of the program; the passes are left out, the
\* unit map of a run being any of UnitMaps
SpecSave == InitSave /\ [][NextSave]_vars

\* the passes and the signal handler together. The handler runs in a
\* goroutine of its own and GetLastProjects returns c.LastProjects itself,
\* with no lock held: the signal is handled wherever the pass is
SignalSnapshots ==
    {s \in Snapshots : \A k \in DOMAIN s : s[k] \in {rawWeb, rawDb}}

ListContainersSignal == ListContainersWith(SignalSnapshots)

SignalInPass == SignalAt({"loop", "list", "range", "evict", "sleep"})

\* json.Marshal ranges over the map while GetProjects writes to it: the
\* runtime can find the map being written and end the process
\* ("concurrent map iteration and map write"); nothing is saved
MarshalThrows ==
    /\ pc \in {"range", "evict"}
    /\ pc' = "off"
    /\ UNCHANGED <<LastProjects, cleanCutoff, diskVars>>
    /\ SaveKeeps

NextSignal ==
    \/ LoopCall
    \/ ListContainersErr
    \/ ListContainersSignal
    \/ RangeContainers
    \/ RangeDone
    \/ RangeLastProjects
    \/ ReturnNil
    \/ Sleep
    \/ Tick
    \/ SignalInPass
    \/ MarshalThrows
    \/ WriteFileOpen
    \/ WriteFileErr
    \/ WriteFileWrite
    \/ Exit

SpecSignal == Init /\ [][NextSignal]_vars

\* the loop of main running for ever while time passes. The goroutine of
\* main.go:64-71 is a for without an exit, no step of GetProjects waits for
\* anything but the engine's answer, and time.Sleep returns: a step of the
\* loop that can be taken is taken. The clock is capped at MaxTime; as long
\* as it is below, a sleep during which the clock advances comes again and
\* again and is taken at some point
ListContainersForget == ListContainersWith({<< >>, <<rawWeb>>})

PassStep ==
    \/ LoopCall
    \/ ListContainersErr
    \/ ListContainersForget
    \/ RangeContainers
    \/ RangeDone
    \/ RangeLastProjects
    \/ ReturnNil
    \/ Sleep

Advance == Sleep /\ clock' > clock

NextForget == PassStep \/ Tick

SpecForget ==
    /\ Init
    /\ [][NextForget]_vars
    /\ WF_vars(PassStep)
    /\ SF_vars(Advance)

\* GetProjects as a function of the map m it is called with, the list the
\* engine gives and the time, the clock standing still while it runs: the
\* first loop from the rest of the list on, seen being seenIDs
RECURSIVE FirstLoop(_, _, _, _)
FirstLoop(m, seen, rest, now) ==
    IF rest = << >> THEN [err |-> "nil", map |-> m, seen |-> seen]
    ELSE IF groupLabel \notin DOMAIN Head(rest).Labels
    THEN FirstLoop(m, seen, Tail(rest), now)
    ELSE IF Len(Head(rest).Names) = 0
    THEN [err |-> "does not have a name", map |-> m, seen |-> seen]
    ELSE FirstLoop(Put(m, ID(NewContainer(Head(rest), now)),
                       NewContainer(Head(rest), now)),
                   seen \cup {ID(NewContainer(Head(rest), now))},
                   Tail(rest), now)

\* the second loop: the expired records are deleted, the others that were
\* not seen are flagged
SecondLoop(m, seen, cut) ==
    [id \in {k \in DOMAIN m : ~Expired(m[k], cut)} |->
        IF id \in seen THEN m[id] ELSE MarkDown(m[id])]

\* what the first loop f is followed by
AfterFirstLoop(f, cut) ==
    IF f.err # "nil" THEN [err |-> f.err, map |-> f.map]
    ELSE [err |-> "nil", map |-> SecondLoop(f.map, f.seen, cut)]

Pass(m, clean, list, now) ==
    AfterFirstLoop(FirstLoop(m, {}, list, now), now - clean)

\* the program is restarted and runs a pass: the handler saves the unit map,
\* main resumes from the file and the loop calls GetProjects
RestartSnapshots ==
    {s \in Snapshots :
        \A k \in DOMAIN s : s[k] \in {rawWeb, rawDb, rawQuoted, rawNameless}}

ListContainersRestart == ListContainersWith(RestartSnapshots)

NextRestart ==
    \/ NextSave
    \/ LoopCall
    \/ ListContainersErr
    \/ ListContainersRestart
    \/ RangeContainers
    \/ RangeDone
    \/ RangeLastProjects
    \/ ReturnNil

SpecRestart == InitSave /\ [][NextRestart]_vars

\* ------------------------------------------- the revision with Refresh
\* more bounds: the history window given, in scan intervals, and the longest
\* time a probe is answered in, in milliseconds
MaxHistWindow == 2
MaxProbeMs == 1

IsLowerChar(ch) == \E i \in DOMAIN Lower : Lower[i] = ch
IsUpperChar(ch) == \E i \in DOMAIN Upper : Upper[i] = ch
\* \w of a regular expression
IsWordChar(ch) ==
    ch \in Digits \/ IsLowerChar(ch) \/ IsUpperChar(ch) \/ ch = "_"
\* [0-9a-z\.-] of exprHostStr
IsHostChar(ch) == ch \in Digits \/ IsLowerChar(ch) \/ ch \in {".", "-"}

\* the end of the longest run of word characters of s that starts at i,
\* which is i - 1 when there is none
RECURSIVE WordRunEnd(_, _)
WordRunEnd(s, i) ==
    IF i <= Len(s) /\ IsWordChar(s[i]) THEN WordRunEnd(s, i + 1) ELSE i - 1

RECURSIVE HostRunEnd(_, _)
HostRunEnd(s, i) ==
    IF i <= Len(s) /\ IsHostChar(s[i]) THEN HostRunEnd(s, i + 1) ELSE i - 1

\* exprHostStr = "Host\\w*(?::|\\(\\`)([0-9a-z\\.-]+)" tried at position i:
\* where its group starts, 0 when it does not match there. The greedy \w*
\* takes the whole run of word characters, since what follows it is none.
ExprHostGroupStart(label, i) ==
    IF ~HasAt(label, <<"H","o","s","t">>, i)
    THEN 0
    ELSE LET e == WordRunEnd(label, i + 4)
             g == IF HasAt(label, <<":">>, e + 1) THEN e + 2
                  ELSE IF HasAt(label, <<"(", Backquote>>, e + 1) THEN e + 3
                  ELSE 0
         IN  IF g # 0 /\ HostRunEnd(label, g) >= g THEN g ELSE 0

\* parseLabelHost: the group of the leftmost match
parseLabelHost(label) ==
    LET at == {i \in 1..Len(label) : ExprHostGroupStart(label, i) # 0}
    IN  IF at = {}
        THEN << >>
        ELSE LET g == ExprHostGroupStart(label, Min(at))
             IN  SubSeq(label, g, HostRunEnd(label, g))

\* the keys with labelHostPrefix "traefik." and labelHostSuffix ".rule"
IsHostLabel(k) == Len(k) >= 2 /\ k[1] = "traefik" /\ k[Len(k)] = "rule"

\* parseLabelsLink: the range over the labels visits them in any order and
\* the first host label decides
parseLabelsLink(labels) ==
    IF \A k \in DOMAIN labels : ~IsHostLabel(k)
    THEN {<< >>}
    ELSE {parseLabelHost(labels[k]) : k \in {x \in DOMAIN labels : IsHostLabel(x)}}

\* strings.ReplaceAll(s, old, "")
RECURSIVE RemoveAll(_, _)
RemoveAll(s, old) ==
    IF Len(s) < Len(old) \/ Len(s) = 0
    THEN s
    ELSE IF HasAt(s, old, 1)
         THEN RemoveAll(SubSeq(s, Len(old) + 1, Len(s)), old)
         ELSE <<s[1]>> \o RemoveAll(Tail(s), old)

IsSpace(ch) == ch \in {" ", "\n"}

\* strings.TrimSpace
RECURSIVE TrimSpace(_)
TrimSpace(s) ==
    IF s = << >> THEN s
    ELSE IF IsSpace(s[1]) THEN TrimSpace(Tail(s))
    ELSE IF IsSpace(s[Len(s)]) THEN TrimSpace(SubSeq(s, 1, Len(s) - 1))
    ELSE s

\* parseStatus
parseStatus(status) ==
    ToLower(TrimSpace(RemoveAll(status,
                      <<"(","h","e","a","l","t","h","y",")">>)))

\* n, _ := strconv.Atoi(s): 0 when s is no number
Atoi(s) ==
    LET body == IF s # << >> /\ s[1] = "-" THEN Tail(s) ELSE s
    IN  IF body = << >> \/ \E i \in DOMAIN body : body[i] \notin Digits
        THEN 0
        ELSE IF s[1] = "-" THEN 0 - DigitsValue(body) ELSE DigitsValue(body)

\* the label keys of this revision
labelGroup == <<"xyz", "senan", "compose-status", "group">>
labelCheckMethod == <<"xyz", "senan", "compose-status", "check", "method">>
labelCheckPort == <<"xyz", "senan", "compose-status", "check", "port">>
labelCheckPath == <<"xyz", "senan", "compose-status", "check", "path">>
labelCheckExpCode == <<"xyz", "senan", "compose-status", "check", "code">>

\* the pseudo group of the projects without a group
PseudoGroup == <<"~">>

\* HTTPCheck{}
ZeroHTTPCheck == [OK |-> FALSE, Code |-> 0, Duration |-> 0, Timeout |-> FALSE]

\* http.NewRequest accepts the empty method and the methods made of token
\* characters
ValidMethod(method) ==
    \A i \in DOMAIN method :
        IsWordChar(method[i]) \/ method[i] \in {"*", "-", "."}

\* mutant: a request that gets no answer in time is an error like every
\* other failed request
checkHTTPTimeoutIsError(dockerNetworkID, dockerContainer, answer) ==
    LET labels == dockerContainer.Labels
        on == {n \in DOMAIN dockerContainer.Networks :
                 dockerContainer.Networks[n].NetworkID = dockerNetworkID}
    IN  IF labelCheckPort \notin DOMAIN labels \/ on = {}
        THEN [check |-> << >>, failed |-> FALSE]
        ELSE IF answer.kind # "response"
        THEN [check |-> << >>, failed |-> TRUE]
        ELSE [check |-> <<[OK |-> answer.code >= 200 /\ answer.code < 300,
                           Code |-> answer.code,
                           Duration |-> answer.ms,
                           Timeout |-> FALSE]>>,
              failed |-> FALSE]

\* checkHTTP for dockerContainer when the network answers the request with
\* answer: the *HTTPCheck, if it is not nil, and whether an error is returned
checkHTTP(dockerNetworkID, dockerContainer, answer) ==
    LET labels == dockerContainer.Labels
        method == IF labelCheckMethod \in DOMAIN labels
                  THEN labels[labelCheckMethod] ELSE <<"H","E","A","D">>
        expCode == IF labelCheckExpCode \in DOMAIN labels
                   THEN Atoi(labels[labelCheckExpCode]) ELSE 200
        \* a container is attached to a network once
        on == {n \in DOMAIN dockerContainer.Networks :
                 dockerContainer.Networks[n].NetworkID = dockerNetworkID}
        ip == IF on = {} THEN ""
              ELSE dockerContainer.Networks[CHOOSE n \in on : TRUE].IPAddress
    IN  IF labelCheckPort \notin DOMAIN labels \/ ip = ""
        THEN [check |-> << >>, failed |-> FALSE]
        ELSE IF ~ValidMethod(method)
        THEN [check |-> << >>, failed |-> TRUE]
        ELSE IF answer.kind = "timeout"
        THEN [check |-> <<[ZeroHTTPCheck EXCEPT !.Timeout = TRUE]>>,
              failed |-> FALSE]
        ELSE IF answer.kind = "error"
        THEN [check |-> << >>, failed |-> TRUE]
        ELSE [check |-> <<[OK |-> \/ (answer.code >= 200 /\ answer.code < 300)
                                  \/ answer.code = expCode,
                           Code |-> answer.code,
                           Duration |-> answer.ms,
                           Timeout |-> FALSE]>>,
              failed |-> FALSE]

\* what the network can answer a probe with
Answer(kind, code, ms) == [kind |-> kind, code |-> code, ms |-> ms]
AllAnswers ==
    {Answer("timeout", 0, 0), Answer("error", 0, 0)}
    \cup {Answer("response", code, ms) :
            code \in {200, 404}, ms \in 1..MaxProbeMs}

\* m[k] = append(m[k], v)
AppendTo(m, k, v) ==
    Put(m, k, IF k \in DOMAIN m THEN Append(m[k], v) ELSE <<v>>)

\* the Containers Refresh can build for dockerContainer
ContainersOf(dockerContainer, dockerNetworkID, Answers) ==
    {[Name |-> dockerContainer.Names[1],
      Status |-> parseStatus(dockerContainer.Status),
      Link |-> link,
      HTTP |-> LET got == checkHTTP(dockerNetworkID, dockerContainer, a)
               IN  IF got.check # << >> THEN got.check[1] ELSE ZeroHTTPCheck] :
        link \in parseLabelsLink(dockerContainer.Labels), a \in Answers}

\* mutant: the loop returns the error of checkHTTP
RECURSIVE RefreshLoopAborts(_, _, _, _, _, _, _)
RefreshLoopAborts(list, k, dockerNetworkID, groups, projects, grouped, Answers) ==
    IF k > Len(list)
    THEN {[err |-> "nil", groups |-> groups, projects |-> projects,
           grouped |-> grouped]}
    ELSE IF Len(list[k].Names) = 0
    THEN {[err |-> "does not have a name", groups |-> groups,
           projects |-> projects, grouped |-> grouped]}
    ELSE IF labelProject \notin DOMAIN list[k].Labels
    THEN RefreshLoopAborts(list, k + 1, dockerNetworkID, groups, projects,
                           grouped, Answers)
    ELSE UNION {
           IF checkHTTP(dockerNetworkID, list[k], a).failed
           THEN {[err |-> "http check", groups |-> groups,
                  projects |-> projects, grouped |-> grouped]}
           ELSE LET project == list[k].Labels[labelProject]
                    inGroup == labelGroup \in DOMAIN list[k].Labels
                IN  UNION {RefreshLoopAborts(
                               list, k + 1, dockerNetworkID,
                               IF inGroup
                               THEN AppendTo(groups, list[k].Labels[labelGroup],
                                             project)
                               ELSE groups,
                               AppendTo(projects, project, container),
                               IF inGroup THEN grouped \cup {project}
                               ELSE grouped,
                               Answers) :
                           container \in ContainersOf(list[k], dockerNetworkID,
                                                      {a})} :
           a \in Answers}

\* the loop of Refresh over dockerContainers from position k on: what it can
\* end with
RECURSIVE RefreshLoop(_, _, _, _, _, _, _)
RefreshLoop(list, k, dockerNetworkID, groups, projects, grouped, Answers) ==
    IF k > Len(list)
    THEN {[err |-> "nil", groups |-> groups, projects |-> projects,
           grouped |-> grouped]}
    ELSE IF Len(list[k].Names) = 0
    THEN {[err |-> "does not have a name", groups |-> groups,
           projects |-> projects, grouped |-> grouped]}
    ELSE IF labelProject \notin DOMAIN list[k].Labels
    THEN RefreshLoop(list, k + 1, dockerNetworkID, groups, projects, grouped,
                     Answers)
    ELSE LET labels == list[k].Labels
             project == labels[labelProject]
             inGroup == labelGroup \in DOMAIN labels
         IN  UNION {RefreshLoop(list, k + 1, dockerNetworkID,
                        IF inGroup
                        THEN AppendTo(groups, labels[labelGroup], project)
                        ELSE groups,
                        AppendTo(projects, project, container),
                        IF inGroup THEN grouped \cup {project} ELSE grouped,
                        Answers) :
                    container \in ContainersOf(list[k], dockerNetworkID, Answers)}

\* the projects of order put one after the other into the pseudo group
RECURSIVE PutUngrouped(_, _)
PutUngrouped(groups, order) ==
    IF order = << >>
    THEN groups
    ELSE PutUngrouped(AppendTo(groups, PseudoGroup, Head(order)), Tail(order))

\* hist.add
\* mutant: the newest value is overwritten, the oldest stays
addOverLast(h, n) ==
    IF h = << >> THEN h ELSE SubSeq(h, 1, Len(h) - 1) \o <<n>>

add(h, n) == LET a == Append(h, n) IN SubSeq(a, 2, Len(a))

\* exprTempStr = "coretemp_core_[0-9]+" matches the sensor key
IsCoreTemp(key) ==
    \E i \in 1..Len(key) :
        /\ HasAt(key, <<"c","o","r","e","t","e","m","p","_",
                        "c","o","r","e","_">>, i)
        /\ i + 14 <= Len(key)
        /\ key[i + 14] \in Digits

RECURSIVE SumTemp(_)
SumTemp(cores) ==
    IF cores = << >> THEN 0
    ELSE (IF IsCoreTemp(Head(cores).SensorKey)
          THEN Head(cores).Temperature ELSE 0) + SumTemp(Tail(cores))

RECURSIVE GCD(_, _)
GCD(a, b) == IF b = 0 THEN a ELSE GCD(b, a % b)

\* the fraction a / b, b > 0, in lowest terms
Fraction(a, b) == <<a \div GCD(a, b), b \div GCD(a, b)>>

\* averageTemp
averageTemp(cores) ==
    LET numCores == Cardinality({i \in DOMAIN cores :
                                    IsCoreTemp(cores[i].SensorKey)})
    IN  IF numCores = 0 THEN <<0, 1>>
        ELSE Fraction(SumTemp(cores), numCores)

\* math.Round(x*100) / 100 of a percentage >= 0 given in thousandths: the
\* hundredths
Round2(thousandths) == (thousandths + 5) \div 10

\* mutant: the sampling checks the errors and ends at the first call that
\* gives nothing
SampleStatsEndsAtFailure(stats, m) ==
    IF m.uptime = 0 THEN stats
    ELSE LET up == [stats EXCEPT !.Uptime = m.uptime]
         IN  IF m.load = << >> THEN up
             ELSE LET ld == [up EXCEPT !.Load1 = m.load[1].Load1,
                                       !.Load5 = m.load[1].Load5,
                                       !.Load15 = m.load[1].Load15]
                  IN  IF m.memory = << >> THEN ld
                      ELSE LET mm == [ld EXCEPT !.MemUsed = m.memory[1].Used,
                                                !.MemTotal = m.memory[1].Total]
                           IN  IF Len(m.cpus) = 0 THEN mm
                               ELSE LET cp == [mm EXCEPT
                                                 !.CPU = Round2(m.cpus[1])]
                                    IN  IF Len(m.temps) = 0 THEN cp
                                        ELSE [cp EXCEPT !.CPUTemp =
                                                averageTemp(m.temps)]

\* the sampling at the end of Refresh, the host giving the metrics m
SampleStats(stats, m) ==
    LET up == IF m.uptime # 0 THEN [stats EXCEPT !.Uptime = m.uptime]
              ELSE stats
        ld == IF m.load # << >>
              THEN [up EXCEPT !.Load1 = m.load[1].Load1,
                              !.Load5 = m.load[1].Load5,
                              !.Load15 = m.load[1].Load15]
              ELSE up
        mm == IF m.memory # << >>
              THEN [ld EXCEPT !.MemUsed = m.memory[1].Used,
                              !.MemTotal = m.memory[1].Total]
              ELSE ld
        cp == IF Len(m.cpus) > 0
              THEN [mm EXCEPT !.CPU = Round2(m.cpus[1])]
              ELSE mm
    IN  IF Len(m.temps) > 0
        THEN [cp EXCEPT !.CPUTemp = averageTemp(m.temps)]
        ELSE cp

SampleHistCPU(h, m) ==
    IF Len(m.cpus) > 0 THEN add(h, Round2(m.cpus[1])) ELSE h

SampleHistTemp(h, m) ==
    IF Len(m.temps) > 0 THEN add(h, averageTemp(m.temps)) ELSE h

\* the ID of the network named dockerNetworkName, "" when there is none
dockerNetworkName == "web"
NetworkID(dockerNetworks) ==
    LET named == {i \in DOMAIN dockerNetworks :
                    dockerNetworks[i].Name = dockerNetworkName}
    IN  IF named = {} THEN "" ELSE dockerNetworks[Min(named)].ID

\* Refresh returns e to Start, which logs it and waits for the ticker
RefreshReturn(e, list) ==
    /\ pc' = "ticker"
    /\ refreshErr' = e
    /\ refreshList' = list

\* what Refresh leaves alone when it returns before it resets the maps
RefreshKeeps ==
    UNCHANGED <<lastGroups, lastProjects, lastStats, histCPU, histTemp>>

\* the IDs of the containers of a list
RECURSIVE IDs(_)
IDs(list) == IF list = << >> THEN << >> ELSE <<Head(list).ID>> \o IDs(Tail(list))

\* an end of Refresh before the sampling: the error, the IDs of the list it
\* was given if it got one, and the maps it has built if it has reset them
Outcome(e, list, reset, groups, projects) ==
    [err |-> e, list |-> list, reset |-> reset, groups |-> groups,
     projects |-> projects]

\* the ends of Refresh before the sampling, the engine answering ListNetworks
\* with nets and ListContainers with listed and the network answering the
\* probes with Answers
OutcomesOf(nets, listed, Answers) ==
    IF nets.failed
    THEN {Outcome("list docker networks", << >>, FALSE, EmptyMap, EmptyMap)}
    ELSE IF NetworkID(nets.networks) = ""
    THEN {Outcome("can't find docker network", << >>, FALSE, EmptyMap,
                  EmptyMap)}
    ELSE IF listed.failed
    THEN {Outcome("listing containers", << >>, FALSE, EmptyMap, EmptyMap)}
    ELSE UNION {
           IF r.err # "nil"
           THEN {Outcome(r.err, <<IDs(listed.list)>>, TRUE, r.groups, r.projects)}
           ELSE {Outcome("nil", <<IDs(listed.list)>>, TRUE,
                         PutUngrouped(r.groups, order), r.projects) :
                   order \in Orders(DOMAIN r.projects \ r.grouped)} :
           r \in RefreshLoop(listed.list, 1, NetworkID(nets.networks),
                             EmptyMap, EmptyMap, {}, Answers)}

Outcomes(NetResults, ListResults, Answers) ==
    UNION {OutcomesOf(nets, listed, Answers) :
             nets \in NetResults, listed \in ListResults}

\* Refresh, with the ends before the sampling that the engine and the network
\* allow and the host giving one of Metrics
Refresh(Ends, Metrics) ==
    /\ pc = "refresh"
    /\ \E m \in Metrics :
         LET stats == SampleStats(lastStats, m)
             cpu == SampleHistCPU(histCPU, m)
             temp == SampleHistTemp(histTemp, m)
         IN  \E o \in Ends :
               /\ RefreshReturn(o.err, o.list)
               /\ IF ~o.reset
                  THEN RefreshKeeps
                  ELSE /\ lastGroups' = o.groups
                       /\ lastProjects' = o.projects
                       /\ IF o.err # "nil"
                          THEN UNCHANGED <<lastStats, histCPU, histTemp>>
                          ELSE /\ lastStats' = stats
                               /\ histCPU' = cpu
                               /\ histTemp' = temp
    /\ home' = << >>
    /\ UNCHANGED <<scanInterval, options, pushes, stepVars>>
    /\ UNCHANGED <<flagGiven, cleanCutoff, LastProjects, clock, running,
                   passVars, err, histVars, diskVars>>

\* Start: the ticker fires and Refresh is called again
Ticker ==
    /\ pc = "ticker"
    /\ pc' = "refresh"
    /\ UNCHANGED <<refreshVars, diskVars>>
    /\ UNCHANGED <<flagGiven, cleanCutoff, LastProjects, clock, running,
                   passVars, err, histVars>>

\* serveHome: the project lists of the groups are sorted where they are, in
\* the slices that lastGroups holds, and the page is rendered from them
serveHome ==
    /\ pc \in {"refresh", "ticker"}
    /\ lastGroups' = [g \in DOMAIN lastGroups |-> SortStrings(lastGroups[g])]
    /\ home' = <<lastGroups'>>
    /\ UNCHANGED <<lastProjects, lastStats, histCPU, histTemp, refreshErr,
                   scanInterval, refreshList, options, pushes, stepVars>>
    /\ UNCHANGED <<flagGiven, cleanCutoff, LastProjects, clock, pc, running,
                   passVars, err, histVars, diskVars>>

\* what the engine, the network and the host give Refresh
sGroup == <<"g">>
sGroupH == <<"h">>
sCache == <<"/", "c">>
sWorker == <<"/", "k">>
sTilde == <<"/", "t">>
sProjectQ == <<"q">>
sProjectR == <<"r">>
sApi == <<"/", "a">>
sUpHealthy == <<"U","p"," ","(","h","e","a","l","t","h","y",")">>
sRuleV2 == <<"H","o","s","t","(",Backquote,"w",".","i","o",Backquote,")">>
sRuleD == <<"H","o","s","t",":","d",".","i","o">>
sRuleE == <<"H","o","s","t","s",":","e",".","i","o",",","f">>
labelRouterRule == <<"traefik", "http", "routers", "web", "rule">>
sensorCore0 == <<"c","o","r","e","t","e","m","p","_","c","o","r","e","_","0">>
sensorCore1 == <<"c","o","r","e","t","e","m","p","_","c","o","r","e","_","1">>
sensorOther == <<"a","c","p","i","t","z">>

\* docker.APIContainers with its Networks
Attached(rawTain, networks) ==
    [ID |-> rawTain.ID, Names |-> rawTain.Names, Status |-> rawTain.Status,
     Labels |-> rawTain.Labels, Networks |-> networks]

OnWeb(ip) == [web |-> [NetworkID |-> "n1", IPAddress |-> ip]]
OnNone == [n \in {} |-> n]

dWeb ==
    Attached(APIContainer("d1", <<sWeb>>, sUpHealthy,
                 (labelProject :> sProject) @@ (labelGroup :> sGroup)
                 @@ (labelRouterRule :> sRuleV2)
                 @@ (labelCheckPort :> <<"8","0">>)),
             OnWeb("10.0.0.2"))

dDb ==
    Attached(APIContainer("d2", <<sDb>>, sUp,
                 (labelProject :> sProjectQ)
                 @@ (labelRule :> sRuleD) @@ (labelWebRule :> sRuleE)),
             OnNone)

dApi ==
    Attached(APIContainer("d3", <<sApi>>, sUp,
                 (labelProject :> sProjectR)
                 @@ (labelCheckPort :> <<"8","0">>)
                 @@ (labelCheckMethod :> <<"G","E","T">>)
                 @@ (labelCheckPath :> <<"/","h">>)
                 @@ (labelCheckExpCode :> <<"4","0","4">>)),
             OnWeb("10.0.0.3"))

\* a container of the project of dDb, in the group of dWeb
dCache ==
    Attached(APIContainer("d7", <<sCache>>, sUp,
                 (labelProject :> sProjectQ) @@ (labelGroup :> sGroup)),
             OnNone)

\* a container of the project of dWeb, in another group
dWorker ==
    Attached(APIContainer("d8", <<sWorker>>, sUp,
                 (labelProject :> sProject) @@ (labelGroup :> sGroupH)),
             OnNone)

\* a container of a third project whose group label is the name of the
\* pseudo group
dTilde ==
    Attached(APIContainer("d9", <<sTilde>>, sUp,
                 (labelProject :> sProjectR) @@ (labelGroup :> PseudoGroup)),
             OnNone)

dNameless ==
    Attached(APIContainer("d4", << >>, sUp, (labelProject :> sProject)),
             OnNone)

dUnlabelled ==
    Attached(APIContainer("d5", <<sOther>>, sUp, EmptyMap), OnNone)

dUnlabelledNameless ==
    Attached(APIContainer("d6", << >>, sUp, EmptyMap), OnNone)

Attachable ==
    {dWeb, dDb, dApi, dNameless, dUnlabelled, dUnlabelledNameless}

\* the lists ListContainers can return: containers with different IDs
AttachedSnapshots ==
    {list \in UNION {[1..n -> Attachable] : n \in 0..MaxContainers} :
        \A i, j \in DOMAIN list : i # j => list[i].ID # list[j].ID}

ListResults ==
    {[failed |-> TRUE, list |-> << >>]}
    \cup {[failed |-> FALSE, list |-> list] : list \in AttachedSnapshots}

NetsWithWeb ==
    [failed |-> FALSE, networks |-> <<[Name |-> "bridge", ID |-> "n0"],
                                      [Name |-> "web", ID |-> "n1"]>>]

NetResults ==
    {[failed |-> TRUE, networks |-> << >>],
     [failed |-> FALSE, networks |-> <<[Name |-> "bridge", ID |-> "n0"]>>],
     NetsWithWeb}

\* what host, load, mem and cpu give: nothing, everything, and a CPU
\* percentage with sensors that are no cores
Metrics ==
    {NoMetrics,
     [uptime |-> 60,
      load |-> <<[Load1 |-> 1, Load5 |-> 2, Load15 |-> 3]>>,
      memory |-> <<[Used |-> 1, Total |-> 2]>>,
      cpus |-> <<1234, 5000>>,
      temps |-> <<[SensorKey |-> sensorCore0, Temperature |-> 40],
                  [SensorKey |-> sensorOther, Temperature |-> 30],
                  [SensorKey |-> sensorCore1, Temperature |-> 45]>>],
     [uptime |-> 0, load |-> << >>, memory |-> << >>,
      cpus |-> <<1235>>,
      temps |-> <<[SensorKey |-> sensorOther, Temperature |-> 30]>>]}

\* WithScanInternal and WithHistWindow
WithScanInternal(c, dur) == [c EXCEPT !.scanInterval = dur]
WithHistWindow(c, dur) ==
    [c EXCEPT !.histCPU = [i \in 1..(dur \div c.scanInterval) |-> 0],
              !.histTemp = [i \in 1..(dur \div c.scanInterval) |-> <<0, 1>>]]

\* NewController of this revision with the two options
NewControllerRefresh(scan, window) ==
    WithHistWindow(
        WithScanInternal([scanInterval |-> 0, lastGroups |-> EmptyMap,
                          lastProjects |-> EmptyMap, lastStats |-> ZeroStats,
                          histCPU |-> << >>, histTemp |-> << >>], scan),
        window)

InitRefresh ==
    /\ flagGiven = FALSE
    /\ cleanCutoff = argCleanCutoffDefault
    /\ LastProjects = EmptyMap
    /\ clock = 0
    /\ pc = "refresh"
    /\ running = 0
    /\ containers = << >>
    /\ idx = 0
    /\ seenIDs = {}
    /\ cutoff = 0
    /\ todo = {}
    /\ err = "none"
    /\ pre = EmptyMap
    /\ obs = EmptyMap
    /\ evicted = {}
    /\ gone = {}
    /\ prevPairs = [nil |-> FALSE, pairs |-> {}]
    /\ served = << >>
    /\ saveFile = << >>
    /\ save = << >>
    /\ lastData = << >>
    /\ oldFile = << >>
    /\ savedMap = << >>
    /\ \E window \in {MaxHistWindow} :
         LET c == NewControllerRefresh(1, window)
         IN  /\ lastGroups = c.lastGroups
             /\ lastProjects = c.lastProjects
             /\ lastStats = c.lastStats
             /\ histCPU = c.histCPU
             /\ histTemp = c.histTemp
             /\ scanInterval = c.scanInterval
    /\ refreshErr = "none"
    /\ refreshList = << >>
    /\ home = << >>
    /\ options = << >>
    /\ pushes = << >>
    /\ dockerContainers = << >>
    /\ loopAt = 0
    /\ groupedProjects = {}
    /\ tmplData = << >>
    /\ answers = << >>
    /\ before = EmptyMap
    /\ sampled = NoMetrics
    /\ hostLabel = NoLabel
    /\ parsed = << >>

AllOutcomes == Outcomes(NetResults, ListResults, AllAnswers)

RefreshAny == Refresh(AllOutcomes, Metrics)

NextRefresh == RefreshAny \/ Ticker \/ serveHome

SpecRefresh == InitRefresh /\ [][NextRefresh]_vars

\* the same program where the containers of three projects carry or lack the
\* group label: dWeb and dWorker put one project into two groups, dDb and
\* dCache give another project one container with and one without a group,
\* and dTilde names the pseudo group in its label
GroupAttachable == {dWeb, dDb, dCache, dWorker, dTilde}

GroupSnapshots ==
    {list \in UNION {[1..n -> GroupAttachable] : n \in 0..MaxContainers} :
        \A i, j \in DOMAIN list : i # j => list[i].ID # list[j].ID}

GroupListResults ==
    {[failed |-> TRUE, list |-> << >>]}
    \cup {[failed |-> FALSE, list |-> list] : list \in GroupSnapshots}

GroupOutcomes == Outcomes({NetsWithWeb}, GroupListResults, AllAnswers)

GroupMetrics == {m \in Metrics : m.cpus = << >>}

RefreshGroups == Refresh(GroupOutcomes, GroupMetrics)

NextGroups == RefreshGroups \/ Ticker \/ serveHome

SpecGroups == InitRefresh /\ [][NextGroups]_vars

\* Refresh and serveHome step by step: Start runs Refresh in its goroutine
\* and the server runs serveHome in the goroutine of the request; the
\* Controller has no lock, so the steps of the two interleave
FailedOutcomes == {o \in GroupOutcomes : ~o.reset}

\* Refresh returns before it has reset the maps
RefreshFails == Refresh(FailedOutcomes, GroupMetrics)

\* the Groups of a request in hand keep the map they were taken from when
\* Refresh makes lastGroups a new map
Detached ==
    IF tmplData # << >> /\ tmplData[1].alias
    THEN <<[tmplData[1] EXCEPT !.alias = FALSE, !.Groups = lastGroups]>>
    ELSE tmplData

\* mutant: Refresh goes on with the lastProjects of the pass before
RefreshBeginKeepsProjects(Lists, Found) ==
    /\ pc = "refresh"
    /\ \E list \in Lists :
         /\ dockerContainers' = list
         /\ refreshList' = <<IDs(list)>>
    /\ lastGroups' = EmptyMap
    /\ UNCHANGED lastProjects
    /\ groupedProjects' = {}
    /\ loopAt' = 1
    /\ tmplData' = Detached
    /\ home' = << >>
    /\ answers' = << >>
    /\ before' \in Found
    /\ pc' = "range"
    /\ UNCHANGED <<lastStats, histCPU, histTemp, refreshErr, scanInterval,
                   options, pushes, sampled, hostLabel, parsed>>
    /\ UNCHANGED <<flagGiven, cleanCutoff, LastProjects, clock, running,
                   passVars, err, histVars, diskVars>>

\* Refresh up to its loop: both lists are there, ListContainers having
\* returned one of Lists, and the maps are made anew; the history keeps one
\* of Found
RefreshBeginWith(Lists, Found) ==
    /\ pc = "refresh"
    /\ \E list \in Lists :
         /\ dockerContainers' = list
         /\ refreshList' = <<IDs(list)>>
    /\ lastGroups' = EmptyMap
    /\ lastProjects' = EmptyMap
    /\ groupedProjects' = {}
    /\ loopAt' = 1
    /\ tmplData' = Detached
    /\ home' = << >>
    /\ answers' = << >>
    /\ before' \in Found
    /\ pc' = "range"
    /\ UNCHANGED <<lastStats, histCPU, histTemp, refreshErr, scanInterval,
                   options, pushes, sampled, hostLabel, parsed>>
    /\ UNCHANGED <<flagGiven, cleanCutoff, LastProjects, clock, running,
                   passVars, err, histVars, diskVars>>

RefreshBegin == RefreshBeginWith(GroupSnapshots, {EmptyMap})

\* one turn of the loop of Refresh, the network answering the probe, if
\* one is made, with one of Answers
RefreshContainerWith(Answers) ==
    /\ pc = "range"
    /\ loopAt <= Len(dockerContainers)
    /\ \E a \in Answers :
         \E r \in RefreshLoop(<<dockerContainers[loopAt]>>, 1,
                               NetworkID(NetsWithWeb.networks), lastGroups,
                               lastProjects, groupedProjects, {a}) :
           /\ lastGroups' = r.groups
           /\ lastProjects' = r.projects
           /\ groupedProjects' = r.grouped
           /\ answers' = Append(answers, a)
           /\ IF r.err # "nil"
              THEN /\ pc' = "ticker"
                   /\ refreshErr' = r.err
                   /\ UNCHANGED loopAt
              ELSE /\ loopAt' = loopAt + 1
                   /\ UNCHANGED <<pc, refreshErr>>
    /\ UNCHANGED <<lastStats, histCPU, histTemp, scanInterval, refreshList,
                   home, options, pushes, dockerContainers, tmplData, before,
                   sampled, hostLabel, parsed>>
    /\ UNCHANGED <<flagGiven, cleanCutoff, LastProjects, clock, running,
                   passVars, err, histVars, diskVars>>

RefreshContainer == RefreshContainerWith({Answer("response", 200, 1)})

\* Refresh after its loop: the pseudo group, the sampling, the host giving
\* one of Samples, and its return
RefreshEndWith(Samples) ==
    /\ pc = "range"
    /\ loopAt > Len(dockerContainers)
    /\ \E order \in Orders(DOMAIN lastProjects \ groupedProjects) :
         lastGroups' = PutUngrouped(lastGroups, order)
    /\ \E m \in Samples :
         /\ lastStats' = SampleStats(lastStats, m)
         /\ histCPU' = SampleHistCPU(histCPU, m)
         /\ histTemp' = SampleHistTemp(histTemp, m)
         /\ sampled' = m
    /\ pc' = "ticker"
    /\ refreshErr' = "nil"
    /\ UNCHANGED <<lastProjects, scanInterval, refreshList, home, options,
                   pushes, dockerContainers, loopAt, groupedProjects,
                   tmplData, answers, before, hostLabel, parsed>>
    /\ UNCHANGED <<flagGiven, cleanCutoff, LastProjects, clock, running,
                   passVars, err, histVars, diskVars>>

RefreshEnd == RefreshEndWith(GroupMetrics)

\* what the steps of serveHome leave alone
HomeKeeps ==
    /\ UNCHANGED <<lastProjects, lastStats, histCPU, histTemp, refreshErr,
                   scanInterval, refreshList, options, pushes,
                   dockerContainers, loopAt, groupedProjects, answers,
                   before, sampled, hostLabel, parsed>>
    /\ UNCHANGED <<flagGiven, cleanCutoff, LastProjects, clock, pc, running,
                   passVars, err, histVars, diskVars>>

\* serveHome, tmplData: Groups is the map that lastGroups holds
serveHomeData ==
    /\ tmplData = << >>
    /\ tmplData' = <<[alias |-> TRUE, Groups |-> EmptyMap, sorted |-> FALSE]>>
    /\ UNCHANGED <<lastGroups, home>>
    /\ HomeKeeps

\* serveHome, the loop of sort.Strings over the lists of Groups
serveHomeSort ==
    /\ tmplData # << >>
    /\ ~tmplData[1].sorted
    /\ IF tmplData[1].alias
       THEN /\ lastGroups' =
                 [g \in DOMAIN lastGroups |-> SortStrings(lastGroups[g])]
            /\ tmplData' = <<[tmplData[1] EXCEPT !.sorted = TRUE]>>
       ELSE /\ tmplData' =
                 <<[tmplData[1] EXCEPT
                      !.sorted = TRUE,
                      !.Groups = [g \in DOMAIN tmplData[1].Groups |->
                                    SortStrings(tmplData[1].Groups[g])]]>>
            /\ UNCHANGED lastGroups
    /\ UNCHANGED home
    /\ HomeKeeps

\* serveHome, tmpl.Execute: the page is rendered from what Groups holds now
serveHomeExecute ==
    /\ tmplData # << >>
    /\ tmplData[1].sorted
    /\ home' = <<IF tmplData[1].alias THEN lastGroups
                 ELSE tmplData[1].Groups>>
    /\ tmplData' = << >>
    /\ UNCHANGED lastGroups
    /\ HomeKeeps

NextSteps ==
    \/ RefreshFails
    \/ RefreshBegin
    \/ RefreshContainer
    \/ RefreshEnd
    \/ Ticker
    \/ serveHomeData
    \/ serveHomeSort
    \/ serveHomeExecute

SpecSteps == InitRefresh /\ [][NextSteps]_vars

\* Refresh with its probes: the containers of the branches of checkHTTP.
\* dWebPlain is dWeb after its port label was removed, dOff has the label
\* and is not attached to the network, and the method of dBadMethod is one
\* that http.NewRequest refuses
sOff == <<"/", "o">>
sBad == <<"/", "b">>

dWebPlain ==
    Attached(APIContainer("d1", <<sWeb>>, sUpHealthy,
                 (labelProject :> sProject) @@ (labelGroup :> sGroup)
                 @@ (labelRouterRule :> sRuleV2)),
             OnWeb("10.0.0.2"))

dOff ==
    Attached(APIContainer("d10", <<sOff>>, sUp,
                 (labelProject :> sProjectQ)
                 @@ (labelCheckPort :> <<"8","0">>)),
             OnNone)

dBadMethod ==
    Attached(APIContainer("d11", <<sBad>>, sUp,
                 (labelProject :> sProjectR)
                 @@ (labelCheckPort :> <<"8","0">>)
                 @@ (labelCheckMethod :> <<"G"," ","T">>)),
             OnWeb("10.0.0.4"))

ProbeAttachable == {dWeb, dWebPlain, dApi, dDb, dOff, dBadMethod}

ProbeSnapshots ==
    {list \in UNION {[1..n -> ProbeAttachable] : n \in 0..MaxContainers} :
        \A i, j \in DOMAIN list : i # j => list[i].ID # list[j].ID}

\* what the network answers a probe with: no answer in time, no connection,
\* and responses with the expected and with other codes
ProbeAnswers ==
    {Answer("timeout", 0, 0), Answer("error", 0, 0)}
    \cup {Answer("response", code, ms) :
            code \in {200, 204, 404}, ms \in 1..MaxProbeMs}

RefreshBeginProbe == RefreshBeginWith(ProbeSnapshots, {EmptyMap})

RefreshContainerProbe == RefreshContainerWith(ProbeAnswers)

NextProbe ==
    \/ RefreshBeginProbe
    \/ RefreshContainerProbe
    \/ RefreshEnd
    \/ Ticker

SpecProbe == InitRefresh /\ [][NextProbe]_vars

\* Refresh with its sampling: each of the five calls gives nothing or a
\* value, and the sensors are none, cores among others, or no cores
MetricSamples ==
    {[uptime |-> uptime, load |-> load, memory |-> memory, cpus |-> cpus,
      temps |-> temps] :
        uptime \in {0, 60},
        load \in {<< >>, <<[Load1 |-> 1, Load5 |-> 2, Load15 |-> 3]>>},
        memory \in {<< >>, <<[Used |-> 1, Total |-> 2]>>},
        cpus \in {<< >>, <<1234, 5000>>},
        temps \in {<< >>,
                   <<[SensorKey |-> sensorCore0, Temperature |-> 40],
                     [SensorKey |-> sensorOther, Temperature |-> 30],
                     [SensorKey |-> sensorCore1, Temperature |-> 45]>>,
                   <<[SensorKey |-> sensorOther, Temperature |-> 30]>>}}

RefreshBeginMetrics == RefreshBeginWith({<< >>, <<dWeb>>}, {EmptyMap})

RefreshEndMetrics == RefreshEndWith(MetricSamples)

NextMetrics ==
    \/ RefreshFails
    \/ RefreshBeginMetrics
    \/ RefreshContainer
    \/ RefreshEndMetrics
    \/ Ticker

SpecMetrics == InitRefresh /\ [][NextMetrics]_vars

\* one pass after the other over a container that is probed in one pass and
\* not in the next: dWebOff is dWeb after it was taken off the network. The
\* history keeps the view each pass found
dWebOff ==
    Attached(APIContainer("d1", <<sWeb>>, sUpHealthy,
                 (labelProject :> sProject) @@ (labelGroup :> sGroup)
                 @@ (labelRouterRule :> sRuleV2)
                 @@ (labelCheckPort :> <<"8","0">>)),
             OnNone)

CycleAttachable == {dWeb, dWebPlain, dWebOff, dApi}

CycleSnapshots ==
    {list \in UNION {[1..n -> CycleAttachable] : n \in 0..MaxContainers} :
        \A i, j \in DOMAIN list : i # j => list[i].ID # list[j].ID}

RefreshBeginCycle == RefreshBeginWith(CycleSnapshots, {lastProjects})

NextCycle ==
    \/ RefreshFails
    \/ RefreshBeginCycle
    \/ RefreshContainerProbe
    \/ RefreshEnd
    \/ Ticker

SpecCycle == InitRefresh /\ [][NextCycle]_vars

\* parseLabelHost alone: the labels are put together from what traefik
\* rules are made of. Before the rule stands nothing or another matcher of
\* v2 or v1; the rule is none, Host or HostRegexp in the v1 and the v2
\* notation; its argument is a host name, alone or followed by another or
\* by a v1 matcher, or a regular expression, or nothing
sMatcherV2 == <<"P","a","t","h","(",Backquote,"/","x",Backquote,")",
                " ","&","&"," ">>
sMatcherV1 == <<"P","a","t","h",":","/","x",";">>
sHostV1 == <<"H","o","s","t",":">>
sHostV2 == <<"H","o","s","t","(",Backquote>>
sHostRegexpV1 == <<"H","o","s","t","R","e","g","e","x","p",":">>
sHostRegexpV2 == <<"H","o","s","t","R","e","g","e","x","p","(",Backquote>>
sHostAB == <<"a",".","b">>
sHostWIO == <<"w",".","i","o">>
sThenHost == <<",","c",".","d">>
sThenPath == <<";","P","a","t","h","=","/","x">>
sRegexpAll == <<".","*">>
sRegexpNamed == <<"{","c",":",".","*","}">>
sRegexpSub == <<"{","s",":","[","a","-","z","]","+","}",".","a",".","b">>
sCloseV2 == <<Backquote,")">>

HostNames == {sHostAB, sHostWIO}
HostBodies ==
    {h \o t : h \in HostNames, t \in {<< >>, sThenHost, sThenPath}}

Labels ==
    [before : {<< >>, sMatcherV2, sMatcherV1},
     rule : {<< >>, sHostV1, sHostV2, sHostRegexpV1, sHostRegexpV2},
     body : HostBodies \cup {<< >>, sRegexpAll, sRegexpNamed, sRegexpSub},
     after : {<< >>, sCloseV2}]

\* the label as the string parseLabelHost is given
Text(l) == l.before \o l.rule \o l.body \o l.after

InitHost ==
    /\ flagGiven = FALSE
    /\ cleanCutoff = argCleanCutoffDefault
    /\ LastProjects = EmptyMap
    /\ clock = 0
    /\ pc = "refresh"
    /\ running = 0
    /\ containers = << >>
    /\ idx = 0
    /\ seenIDs = {}
    /\ cutoff = 0
    /\ todo = {}
    /\ err = "none"
    /\ pre = EmptyMap
    /\ obs = EmptyMap
    /\ evicted = {}
    /\ gone = {}
    /\ prevPairs = [nil |-> FALSE, pairs |-> {}]
    /\ served = << >>
    /\ saveFile = << >>
    /\ save = << >>
    /\ lastData = << >>
    /\ oldFile = << >>
    /\ savedMap = << >>
    /\ \E window \in {MaxHistWindow} :
         LET c == NewControllerRefresh(1, window)
         IN  /\ lastGroups = c.lastGroups
             /\ lastProjects = c.lastProjects
             /\ lastStats = c.lastStats
             /\ histCPU = c.histCPU
             /\ histTemp = c.histTemp
             /\ scanInterval = c.scanInterval
    /\ refreshErr = "none"
    /\ refreshList = << >>
    /\ home = << >>
    /\ options = << >>
    /\ pushes = << >>
    /\ dockerContainers = << >>
    /\ loopAt = 0
    /\ groupedProjects = {}
    /\ tmplData = << >>
    /\ answers = << >>
    /\ before = EmptyMap
    /\ sampled = NoMetrics
    /\ hostLabel \in Labels
    /\ parsed = << >>

\* parseLabelHost is called with the label
ParseLabel ==
    /\ parsed = << >>
    /\ parsed' = <<parseLabelHost(Text(hostLabel))>>
    /\ UNCHANGED <<lastGroups, lastProjects, lastStats, histCPU, histTemp,
                   refreshErr, scanInterval, refreshList, home, options,
                   pushes, dockerContainers, loopAt, groupedProjects,
                   tmplData, answers, before, sampled, hostLabel>>
    /\ UNCHANGED <<flagGiven, cleanCutoff, LastProjects, clock, pc, running,
                   passVars, err, histVars, diskVars>>

NextHost == ParseLabel

SpecHost == InitHost /\ [][NextHost]_vars

\* hist.add alone: a buffer of every capacity up to MaxCapacity, made as
\* WithHistWindow makes it, is pushed up to MaxPushes values
InitHist ==
    /\ flagGiven = FALSE
    /\ cleanCutoff = argCleanCutoffDefault
    /\ LastProjects = EmptyMap
    /\ clock = 0
    /\ pc = "refresh"
    /\ running = 0
    /\ containers = << >>
    /\ idx = 0
    /\ seenIDs = {}
    /\ cutoff = 0
    /\ todo = {}
    /\ err = "none"
    /\ pre = EmptyMap
    /\ obs = EmptyMap
    /\ evicted = {}
    /\ gone = {}
    /\ prevPairs = [nil |-> FALSE, pairs |-> {}]
    /\ served = << >>
    /\ saveFile = << >>
    /\ save = << >>
    /\ lastData = << >>
    /\ oldFile = << >>
    /\ savedMap = << >>
    /\ \E capacity \in 0..MaxCapacity :
         LET c == NewControllerRefresh(1, capacity)
         IN  /\ lastGroups = c.lastGroups
             /\ lastProjects = c.lastProjects
             /\ lastStats = c.lastStats
             /\ histCPU = c.histCPU
             /\ histTemp = c.histTemp
             /\ scanInterval = c.scanInterval
    /\ refreshErr = "none"
    /\ refreshList = << >>
    /\ home = << >>
    /\ options = << >>
    /\ pushes = << >>
    /\ dockerContainers = << >>
    /\ loopAt = 0
    /\ groupedProjects = {}
    /\ tmplData = << >>
    /\ answers = << >>
    /\ before = EmptyMap
    /\ sampled = NoMetrics
    /\ hostLabel = NoLabel
    /\ parsed = << >>

\* c.histCPU.add(n)
Push ==
    /\ Len(pushes) < MaxPushes
    /\ \E n \in 1..MaxPushes :
         /\ histCPU' = add(histCPU, n)
         /\ pushes' = Append(pushes, n)
    /\ UNCHANGED <<lastGroups, lastProjects, lastStats, histTemp, refreshErr,
                   scanInterval, refreshList, home, options, stepVars>>
    /\ UNCHANGED <<flagGiven, cleanCutoff, LastProjects, clock, pc, running,
                   passVars, err, histVars, diskVars>>

NextHist == Push

SpecHist == InitHist /\ [][NextHist]_vars

\* NewController of this revision, given the two options in either order.
\* An option is its name and its duration.
Option(name, dur) == [name |-> name, dur |-> dur]

OptionLists ==
    UNION {{<<Option("WithScanInternal", scan), Option("WithHistWindow", window)>>,
            <<Option("WithHistWindow", window), Option("WithScanInternal", scan)>>} :
             scan \in 1..MaxHistWindow, window \in 0..(MaxHistWindow + 1)}

\* the division of WithHistWindow panics when the scan interval is 0, as it
\* is until WithScanInternal has run: NewController gives it no default
Panics(c, option) == option.name = "WithHistWindow" /\ c.scanInterval = 0

\* the loop of NewController over its options: the controller it has made,
\* or the panic of an option
RECURSIVE RunOptions(_, _)
RunOptions(c, opts) ==
    IF opts = << >> THEN [cont |-> c, panicked |-> FALSE]
    ELSE IF Panics(c, Head(opts)) THEN [cont |-> c, panicked |-> TRUE]
    ELSE RunOptions(IF Head(opts).name = "WithHistWindow"
                    THEN WithHistWindow(c, Head(opts).dur)
                    ELSE WithScanInternal(c, Head(opts).dur),
                    Tail(opts))

InitNew ==
    /\ flagGiven = FALSE
    /\ cleanCutoff = argCleanCutoffDefault
    /\ LastProjects = EmptyMap
    /\ clock = 0
    /\ pc = "new"
    /\ running = 0
    /\ containers = << >>
    /\ idx = 0
    /\ seenIDs = {}
    /\ cutoff = 0
    /\ todo = {}
    /\ err = "none"
    /\ pre = EmptyMap
    /\ obs = EmptyMap
    /\ evicted = {}
    /\ gone = {}
    /\ prevPairs = [nil |-> FALSE, pairs |-> {}]
    /\ served = << >>
    /\ saveFile = << >>
    /\ save = << >>
    /\ lastData = << >>
    /\ oldFile = << >>
    /\ savedMap = << >>
    /\ lastGroups = EmptyMap
    /\ lastProjects = EmptyMap
    /\ lastStats = ZeroStats
    /\ histCPU = << >>
    /\ histTemp = << >>
    /\ scanInterval = 0
    /\ refreshErr = "none"
    /\ refreshList = << >>
    /\ home = << >>
    /\ options \in OptionLists
    /\ pushes = << >>
    /\ dockerContainers = << >>
    /\ loopAt = 0
    /\ groupedProjects = {}
    /\ tmplData = << >>
    /\ answers = << >>
    /\ before = EmptyMap
    /\ sampled = NoMetrics
    /\ hostLabel = NoLabel
    /\ parsed = << >>

\* NewController(dockerNetworkName, options...) runs: it returns the
\* controller, which Start then refreshes, or an option panics
NewControllerRuns ==
    /\ pc = "new"
    /\ LET r == RunOptions([scanInterval |-> scanInterval,
                            lastGroups |-> lastGroups,
                            lastProjects |-> lastProjects,
                            lastStats |-> lastStats,
                            histCPU |-> histCPU, histTemp |-> histTemp],
                           options)
       IN  /\ pc' = IF r.panicked THEN "panic" ELSE "refresh"
           /\ scanInterval' = r.cont.scanInterval
           /\ histCPU' = r.cont.histCPU
           /\ histTemp' = r.cont.histTemp
    /\ UNCHANGED <<lastGroups, lastProjects, lastStats, refreshErr,
                   refreshList, home, options, pushes, stepVars>>
    /\ UNCHANGED <<flagGiven, cleanCutoff, LastProjects, clock, running,
                   passVars, err, histVars, diskVars>>

\* what the engine gives the controller once it is made
NewOutcomes ==
    Outcomes({NetsWithWeb},
             {[failed |-> TRUE, list |-> << >>],
              [failed |-> FALSE, list |-> <<dWeb>>]},
             {Answer("response", 200, 1)})

RefreshNew == Refresh(NewOutcomes, Metrics)

NextNew == NewControllerRuns \/ RefreshNew \/ Ticker \/ serveHome

SpecNew == InitNew /\ [][NextNew]_vars

\* the program of either revision
InitAll == Init \/ InitRefresh

NextAll == Next \/ NextRefresh

SpecAll == InitAll /\ [][NextAll]_vars

\* ------------------------------------------------------------ the claims
\* the last call of GetProjects has returned, and what it returned
Returned(e) == pc = "sleep" /\ err = e

\* the reading of the clock from which the pass computed cutoff
PassTime == cutoff + cleanCutoff

\* the units tracked when the pass was called that its list does not hold
Absent == DOMAIN pre \ seenIDs

\* C1: a pass that meets a container without a name leaves the unit map as
\* it was when the pass was called.
C1_AbortLeavesMapUntouched ==
    Returned("does not have a name") => LastProjects = pre

\* a step of Refresh that returns an error of the engine
RefreshSourceFailed ==
    /\ pc = "refresh"
    /\ pc' = "ticker"
    /\ refreshErr' \in {"list docker networks", "can't find docker network",
                        "listing containers"}

\* C2: a pass whose listing of the containers fails returns the error and
\* leaves the unit map as it was when the pass was called, and a Refresh
\* whose listing of the networks or of the containers fails, or that does not
\* find the network, leaves the groups, the projects, the stats and the
\* histories as they were.
C2_SourceFailureKeepsState ==
    /\ [](Returned("listing containers") => LastProjects = pre)
    /\ [][RefreshSourceFailed
            => UNCHANGED <<lastGroups, lastProjects, lastStats, histCPU,
                           histTemp>>]_vars

C2_Witness ==
    /\ Returned("listing containers")
    /\ \E id \in DOMAIN LastProjects : ~LastProjects[id].IsDown
    /\ \E id \in DOMAIN LastProjects : LastProjects[id].IsDown

\* C3: the page a request is shown while a pass runs shows the unit map
\* either as the pass found it or as the pass left it.
C3_RequestSeesWholePass ==
    (pc = "sleep" /\ served # << >>)
        => served[1] \in Views(pre) \cup Views(LastProjects)

\* C4: after a pass that returned nil, a unit that was tracked and is not in
\* the list, and whose LastSeen is no more than cleanCutoff before the time
\* of the pass, is tracked, is down, and has the status, link and LastSeen
\* of the record last inserted for it.
C4_DownTransition ==
    Returned("nil") =>
        \A id \in Absent :
            PassTime - pre[id].LastSeen <= cleanCutoff =>
                /\ id \in DOMAIN LastProjects
                /\ id \in DOMAIN obs
                /\ LastProjects[id].IsDown
                /\ LastProjects[id].Status = obs[id].Status
                /\ LastProjects[id].Link = obs[id].Link
                /\ LastProjects[id].LastSeen = obs[id].LastSeen

\* a unit with a link that was up goes down at its first missed pass
C4_Witness ==
    /\ Returned("nil")
    /\ \E id \in Absent :
         /\ ~pre[id].IsDown
         /\ PassTime - pre[id].LastSeen <= cleanCutoff
         /\ id \in DOMAIN LastProjects
         /\ LastProjects[id].IsDown
         /\ LastProjects[id].Link # << >>

\* C5: a pass that returned nil has removed a tracked unit that is not in its
\* list exactly if the time of the pass is more than cleanCutoff after the
\* unit's LastSeen.
C5_Eviction ==
    Returned("nil") =>
        \A id \in Absent :
            (PassTime - pre[id].LastSeen > cleanCutoff)
                <=> (id \notin DOMAIN LastProjects)

\* one unit is removed and another, absent for exactly cleanCutoff, is kept
C5_Witness ==
    /\ Returned("nil")
    /\ cleanCutoff > 0
    /\ \E id \in Absent : id \notin DOMAIN LastProjects
    /\ \E id \in Absent :
         /\ PassTime - pre[id].LastSeen = cleanCutoff
         /\ id \in DOMAIN LastProjects

\* C6: started without the clean-cutoff flag, the program keeps a unit whose
\* LastSeen is less than 3 days before the time of the pass.
C6_DefaultCutoffIsThreeDays ==
    (~flagGiven /\ Returned("nil")) =>
        \A id \in DOMAIN pre \cup seenIDs :
            id \in DOMAIN LastProjects

\* C7: after a pass that returned nil, a unit of the list that had been
\* removed, or that was down, has a record that is not down and is the
\* record this pass built for it.
C7_RecreationResets ==
    Returned("nil") =>
        \A id \in seenIDs :
            (id \in gone \/ (id \in DOMAIN pre /\ pre[id].IsDown)) =>
                /\ id \in DOMAIN LastProjects
                /\ id \in DOMAIN obs
                /\ ~LastProjects[id].IsDown
                /\ LastProjects[id] = obs[id]
                /\ LastProjects[id].LastSeen <= PassTime
                /\ id \in DOMAIN pre =>
                      LastProjects[id].LastSeen >= pre[id].LastSeen

\* the records of the unit map for the pair p
RecordsOf(p) ==
    {id \in DOMAIN LastProjects :
        <<LastProjects[id].Project, LastProjects[id].Name>> = p}

\* C8: after a pass that returned nil the unit map holds one record for each
\* (project, name) pair of the list, and it is no larger than before the
\* pass when the pass before listed the same pairs.
C8_IdentityStable ==
    Returned("nil") =>
        /\ \A p \in Pairs(containers) : Cardinality(RecordsOf(p)) = 1
        /\ (prevPairs.nil /\ prevPairs.pairs = Pairs(containers)) =>
              Cardinality(DOMAIN LastProjects) <= Cardinality(DOMAIN pre)

\* C9: no two calls of GetProjects are in progress together.
C9_PassesNeverOverlap == running <= 1

\* a second pass is in its second loop after time has passed during it
C9_Witness ==
    /\ running = 1
    /\ err # "none"
    /\ pc = "evict"
    /\ \E id \in seenIDs \cap DOMAIN LastProjects :
         LastProjects[id].LastSeen < PassTime

\* the containers of a list that have the project label
Labelled(list) ==
    SelectSeq(list, LAMBDA dc : labelProject \in DOMAIN dc.Labels)

\* the list the last Refresh was given
Listed ==
    [i \in DOMAIN refreshList[1] |->
        CHOOSE dc \in Attachable \cup GroupAttachable :
            dc.ID = refreshList[1][i]]

\* the groups, whatever order their projects are in
Canonical(groups) == [g \in DOMAIN groups |-> SortStrings(groups[g])]

\* C10: a Refresh that was given a list ends, for its error, its projects
\* and its groups, as a Refresh can end that is given the list without the
\* containers that have no project label.
C10_UnlabelledIgnored ==
    (pc = "ticker" /\ refreshList # << >>) =>
        \E o \in OutcomesOf(NetsWithWeb,
                            [failed |-> FALSE, list |-> Labelled(Listed)],
                            AllAnswers) :
            /\ o.err = refreshErr
            /\ o.projects = lastProjects
            /\ Canonical(o.groups) = Canonical(lastGroups)

\* C11: a controller made from a save file that holds all of what the signal
\* handler marshalled has the unit map the handler marshalled: the same keys
\* and, for every key, the same fields.
C11_RoundTrip ==
    (pc = "boot" /\ savedMap # << >> /\ saveFile = lastData)
        => LastProjects = savedMap[1]

C11_Witness ==
    /\ pc = "boot"
    /\ savedMap # << >>
    /\ saveFile = lastData
    /\ LastProjects = savedMap[1]
    /\ \E a, b \in DOMAIN LastProjects :
         /\ LastProjects[a].IsDown
         /\ ~LastProjects[b].IsDown
         /\ LastProjects[b].Status = ToLower(sUpQuoted)
         /\ LastProjects[a].LastSeen # LastProjects[b].LastSeen

\* C12: once the signal handler has marshalled, the save file holds what it
\* held when the signal arrived or all of what was marshalled.
C12_NoPartialWrite ==
    lastData # << >> => saveFile \in {oldFile, lastData}

\* C13: when what main has read of the save file is nothing or does not
\* decode, the controller is made and its unit map is empty.
C13_ResumeFailureNotFatal ==
    (pc \in {"boot", "fatal"} /\ ~Decodes(save))
        => (pc = "boot" /\ LastProjects = EmptyMap)

\* the projects that the list of group g names
ProjectsIn(groups, g) == {groups[g][i] : i \in DOMAIN groups[g]}

\* C14: after a pass without error no project is named in the lists of two
\* different groups of lastGroups.
C14_OneGroupPerProject ==
    (pc = "ticker" /\ refreshErr = "nil") =>
        \A g, h \in DOMAIN lastGroups :
            g # h => ProjectsIn(lastGroups, g) \cap ProjectsIn(lastGroups, h) = {}

\* project p is named in the list of group g
InGroup(groups, g, p) == g \in DOMAIN groups /\ p \in ProjectsIn(groups, g)

\* the containers of project p in the list the last Refresh was given
ObservedOf(p) ==
    {i \in DOMAIN Listed :
        /\ labelProject \in DOMAIN Listed[i].Labels
        /\ Listed[i].Labels[labelProject] = p}

\* C15: after a pass without error a project is listed in the pseudo group
\* exactly if none of its observed containers carries the group label, and a
\* project with a container that carries the group label with value G is
\* listed under G and not in the pseudo group.
C15_PseudoGroupIffUnlabelled ==
    (pc = "ticker" /\ refreshErr = "nil" /\ refreshList # << >>) =>
        \A p \in {Listed[i].Labels[labelProject] :
                    i \in {j \in DOMAIN Listed :
                             labelProject \in DOMAIN Listed[j].Labels}} :
            /\ InGroup(lastGroups, PseudoGroup, p)
                  <=> \A i \in ObservedOf(p) :
                        labelGroup \notin DOMAIN Listed[i].Labels
            /\ \A i \in ObservedOf(p) :
                  labelGroup \in DOMAIN Listed[i].Labels =>
                      /\ InGroup(lastGroups, Listed[i].Labels[labelGroup], p)
                      /\ ~InGroup(lastGroups, PseudoGroup, p)

\* the units of a project are in non-decreasing order of Name
SortedByName(units) ==
    \A i, j \in DOMAIN units :
        i < j => ~StrLess(units[j].Name, units[i].Name)

\* view shows every unit of the map m once, under the project of the unit
ShowsEachOnce(view, m) ==
    /\ DOMAIN view = {m[id].Project : id \in DOMAIN m}
    /\ \A p \in DOMAIN view :
          /\ Len(view[p]) = Cardinality({id \in DOMAIN m : m[id].Project = p})
          /\ \A i \in DOMAIN view[p] : view[p][i].Project = p
    /\ \A id \in DOMAIN m :
          \E i \in DOMAIN view[m[id].Project] : view[m[id].Project][i] = m[id]

\* C16: whatever order ServeHTTP visits the unit map in, the view it builds
\* has the units of every project in non-decreasing order of Name and shows
\* every tracked unit once, under its own project.
C16_ViewSortedAndComplete ==
    \A view \in Views(LastProjects) :
        /\ \A p \in DOMAIN view : SortedByName(view[p])
        /\ ShowsEachOnce(view, LastProjects)

\* a request was shown two projects, one of them with two units whose names
\* differ
C16_Witness ==
    /\ served # << >>
    /\ served[1] \in Views(LastProjects)
    /\ \E p, q \in DOMAIN served[1] :
          /\ p # q
          /\ Len(served[1][p]) = 2
          /\ StrLess(served[1][p][1].Name, served[1][p][2].Name)

\* the project names of every group of a page are in non-decreasing order
GroupsSorted(groups) ==
    \A g \in DOMAIN groups :
        \A i, j \in DOMAIN groups[g] :
            i < j => ~StrLess(groups[g][j], groups[g][i])

\* C17: the page serveHome renders lists the project names of every group
\* in non-decreasing order.
C17_HomeGroupsSorted == home # << >> => GroupsSorted(home[1])

\* C18: a request that follows another with the unit map unchanged is shown
\* the view the other was shown: the same projects with the same units in
\* the same order.
C18_SameViewTwice ==
    [][(served # << >> /\ served' # << >> /\ LastProjects' = LastProjects)
          => served' = served]_vars

\* a request was shown a project of three units, one of them down
C18_Witness ==
    /\ served # << >>
    /\ served[1] \in Views(LastProjects)
    /\ \E p \in DOMAIN served[1] :
          /\ Len(served[1][p]) = 3
          /\ \E i \in 1..3 : served[1][p][i].IsDown

\* the last n values of a sequence
LastOf(seq, n) == SubSeq(seq, Len(seq) - n + 1, Len(seq))

\* C19: hist.add leaves the length of the buffer as it is, and a buffer that
\* was pushed no fewer values than it is long holds the values pushed last,
\* in the order they were pushed.
C19_BufferKeepsLengthAndLastPushes ==
    /\ [][Len(histCPU') = Len(histCPU)]_vars
    /\ [](Len(pushes) >= Len(histCPU)
            => histCPU = LastOf(pushes, Len(histCPU)))

\* a buffer of capacity 3 was pushed 1, 2, 3, 4 and holds 2, 3, 4
C19_Witness == pushes = <<1, 2, 3, 4>> /\ histCPU = <<2, 3, 4>>

\* the duration the controller was given with the option name
Given(name) ==
    LET i == CHOOSE k \in DOMAIN options : options[k].name = name
    IN  options[i].dur

\* C20: NewController returns for either order of the two options, and from
\* then on both history buffers are as long as the history window divided
\* by the scan interval, the remainder dropped.
C20_BuffersSizedFromOptions ==
    pc # "new" =>
        /\ pc # "panic"
        /\ Len(histCPU) = Given("WithHistWindow") \div Given("WithScanInternal")
        /\ Len(histTemp) = Given("WithHistWindow") \div Given("WithScanInternal")

\* the turns the loop of the pass in hand has made, and what it stored for
\* the container of turn i: lastProjects gets one record a turn, appended to
\* the list of the project of the container
Turns == 1..Len(answers)
ProjectOf(dockerContainer) == dockerContainer.Labels[labelProject]
PlaceOf(i) ==
    Cardinality({j \in 1..i : ProjectOf(dockerContainers[j])
                                = ProjectOf(dockerContainers[i])})
StoredAt(i) == lastProjects[ProjectOf(dockerContainers[i])][PlaceOf(i)]

\* the container carries the port label; checkHTTP sends it a request
Configured(dockerContainer) == labelCheckPort \in DOMAIN dockerContainer.Labels
WebID == NetworkID(NetsWithWeb.networks)
Sent(dockerContainer) ==
    \E a, b \in ProbeAnswers :
        checkHTTP(WebID, dockerContainer, a) # checkHTTP(WebID, dockerContainer, b)

\* the probe of turn i was sent and failed: no connection, no answer in
\* time, or a response that is not OK
ProbeFailed(i) ==
    /\ Sent(dockerContainers[i])
    /\ LET got == checkHTTP(WebID, dockerContainers[i], answers[i])
       IN  got.failed \/ got.check[1].Timeout \/ ~got.check[1].OK

\* C21: a container without the port label is not probed (what the network
\* would answer makes no difference and checkHTTP returns nil, nil), its
\* record carries no health result, and what its record holds differs from
\* what the record of every unit holds whose probe was sent and failed
C21_UnprobedDiffersFromFailed ==
    \A i \in Turns :
        ~Configured(dockerContainers[i]) =>
            /\ ~Sent(dockerContainers[i])
            /\ checkHTTP(WebID, dockerContainers[i], answers[i])
                 = [check |-> << >>, failed |-> FALSE]
            /\ StoredAt(i).HTTP = ZeroHTTPCheck
            /\ \A j \in Turns :
                 ProbeFailed(j) => StoredAt(j).HTTP # StoredAt(i).HTTP

\* dockerContainer after its port label was removed
WithoutPort(dockerContainer) ==
    [dockerContainer EXCEPT
       !.Labels = [k \in DOMAIN dockerContainer.Labels \ {labelCheckPort} |->
                     dockerContainer.Labels[k]]]

\* the request of turn i was sent and got no answer in time
TimedOut(i) == Sent(dockerContainers[i]) /\ answers[i].kind = "timeout"

\* C22: a probe that times out is no error: checkHTTP returns a check with
\* Timeout=true and OK=false and a nil error, and the unit is stored with
\* that check and with the name, status and link it is stored with when it
\* has no port label
C22_TimeoutIsRecorded ==
    \A i \in Turns :
        TimedOut(i) =>
            LET got == checkHTTP(WebID, dockerContainers[i], answers[i])
            IN  /\ ~got.failed
                /\ got.check # << >>
                /\ got.check[1].Timeout
                /\ ~got.check[1].OK
                /\ StoredAt(i).HTTP = got.check[1]
                /\ [StoredAt(i) EXCEPT !.HTTP = ZeroHTTPCheck]
                     \in ContainersOf(WithoutPort(dockerContainers[i]), WebID,
                                      {answers[i]})

\* a pass has ended without error after a probe of it timed out
C22_Witness ==
    /\ pc = "ticker"
    /\ refreshErr = "nil"
    /\ \E i \in Turns : TimedOut(i) /\ StoredAt(i).HTTP.Timeout

\* the code the unit is configured to answer with, 200 when it names none
ExpectedCode(dockerContainer) ==
    IF labelCheckExpCode \in DOMAIN dockerContainer.Labels
    THEN Atoi(dockerContainer.Labels[labelCheckExpCode])
    ELSE 200

\* the request of turn i was sent and got a response
Responded(i) == Sent(dockerContainers[i]) /\ answers[i].kind = "response"

\* C23: a probe that gets a response is no error and its code is recorded;
\* the check is not OK whenever the code is outside 200..299 and whenever it
\* is not the expected code of the unit, and it is OK otherwise
C23_OKIffExpectedAnd2xx ==
    \A i \in Turns :
        Responded(i) =>
            LET got == checkHTTP(WebID, dockerContainers[i], answers[i])
                code == answers[i].code
            IN  /\ ~got.failed
                /\ got.check # << >>
                /\ StoredAt(i).HTTP = got.check[1]
                /\ StoredAt(i).HTTP.Code = code
                /\ StoredAt(i).HTTP.OK
                     <=> /\ code >= 200 /\ code < 300
                         /\ code = ExpectedCode(dockerContainers[i])

\* a view without its health results
Bare(projects) ==
    [p \in DOMAIN projects |->
       [i \in DOMAIN projects[p] |->
          [Name |-> projects[p][i].Name, Status |-> projects[p][i].Status,
           Link |-> projects[p][i].Link]]]

\* what Refresh publishes for the list of the pass in hand when every probe
\* it sends gets the response 200: the views without their health results
\* and the groups
AllProbesSucceed ==
    UNION {{[projects |-> Bare(r.projects),
             groups |-> PutUngrouped(r.groups, order)] :
              order \in Orders(DOMAIN r.projects \ r.grouped)} :
           r \in {x \in RefreshLoop(dockerContainers, 1, WebID, EmptyMap,
                                    EmptyMap, {}, {Answer("response", 200, 1)}) :
                    x.err = "nil"}}

\* C24: whatever the probes of a pass are answered with, the pass ends with a
\* nil error and has published every labelled unit of the snapshot, and the
\* names, statuses and links of the units and the groups of the projects are
\* what a pass over the same snapshot publishes when all its probes succeed
C24_ProbesNeverAbortThePass ==
    pc = "ticker" =>
        /\ refreshErr = "nil"
        /\ Len(answers) = Len(dockerContainers)
        /\ \A i \in Turns :
               /\ ProjectOf(dockerContainers[i]) \in DOMAIN lastProjects
               /\ PlaceOf(i) <= Len(lastProjects[ProjectOf(dockerContainers[i])])
               /\ StoredAt(i).Name = dockerContainers[i].Names[1]
        /\ [projects |-> Bare(lastProjects), groups |-> lastGroups]
             \in AllProbesSucceed

\* a pass over two units has ended, one probe of it having failed with a
\* connection error and the other having timed out
C24_Witness ==
    /\ pc = "ticker"
    /\ Len(dockerContainers) = 2
    /\ \E i, j \in Turns :
         /\ Sent(dockerContainers[i]) /\ answers[i].kind = "error"
         /\ Sent(dockerContainers[j]) /\ answers[j].kind = "timeout"

\* what the probe of turn i alone gives the record of its unit
ProbedNow(i) ==
    LET got == checkHTTP(WebID, dockerContainers[i], answers[i])
    IN  IF got.check # << >> THEN got.check[1] ELSE ZeroHTTPCheck

\* the health results the view a pass found held for the unit of turn i
HeldBefore(i) ==
    IF ProjectOf(dockerContainers[i]) \notin DOMAIN before
    THEN {}
    ELSE LET records == before[ProjectOf(dockerContainers[i])]
         IN  {records[k].HTTP :
                k \in {x \in DOMAIN records :
                         records[x].Name = dockerContainers[i].Names[1]}}

\* C25: the view holds the records of the turns of the last pass that got
\* its lists and no others, and the health result of each is what the probe
\* of that turn gave: the zero result when no request was sent, whatever the
\* view held for the unit before
C25_HealthIsCycleLocal ==
    /\ \A p \in DOMAIN lastProjects :
         Len(lastProjects[p])
           = Cardinality({i \in Turns : ProjectOf(dockerContainers[i]) = p})
    /\ \A i \in Turns :
         /\ ProjectOf(dockerContainers[i]) \in DOMAIN lastProjects
         /\ StoredAt(i).HTTP = ProbedNow(i)
         /\ ~Sent(dockerContainers[i]) => StoredAt(i).HTTP = ZeroHTTPCheck

\* a pass has ended that sent no request to a unit, which has lost its port
\* label or is off the network, while the view the pass found held the OK
\* result of a probe for that unit
C25_Witness ==
    /\ pc = "ticker"
    /\ \E i \in Turns :
         /\ dockerContainers[i] \in {dWebPlain, dWebOff}
         /\ \E h \in HeldBefore(i) : h.OK /\ h.Code = 200
         /\ StoredAt(i).HTTP = ZeroHTTPCheck

\* a step of Refresh through its sampling
Sampling == pc = "range" /\ pc' = "ticker"

NoCoreSensor(temps) == \A i \in DOMAIN temps : ~IsCoreTemp(temps[i].SensorKey)

\* C27: a pass in which cpu.Percent gives nothing leaves histCPU as it was,
\* and a pass in which the sensors give nothing, or give no CPU core, leaves
\* histTemp as it was
C27_NoSampleNoPush ==
    [][Sampling =>
         /\ sampled'.cpus = << >> => histCPU' = histCPU
         /\ NoCoreSensor(sampled'.temps) => histTemp' = histTemp]_vars

\* the host name an argument of a rule begins with
FirstHost(body) == CHOOSE h \in HostNames : SubSeq(body, 1, Len(h)) = h

\* C28: for a label with a Host rule, in the v1 or the v2 notation, with or
\* without a matcher before it, whose argument begins with a host name,
\* parseLabelHost returns that host name, also when another host or a v1
\* matcher follows it; for a label without a Host rule, which every label
\* with a HostRegexp rule is and the empty label, it returns the empty
\* string
C28_FirstHostOfHostRule ==
    parsed # << >> =>
        /\ hostLabel.rule \in {sHostV1, sHostV2} /\ hostLabel.body \in HostBodies
             => parsed[1] = FirstHost(hostLabel.body)
        /\ hostLabel.rule \in {<< >>, sHostRegexpV1, sHostRegexpV2}
             => parsed[1] = << >>

\* C29: whatever cleanCutoff is, after a pass that returned nil every unit of
\* the list of the pass is tracked and is not down: the second loop of a
\* pass removes no unit that its first loop has inserted
C29_ObservedUnitSurvivesThePass ==
    Returned("nil") =>
        \A id \in seenIDs :
            /\ id \in DOMAIN LastProjects
            /\ ~LastProjects[id].IsDown

\* C30: after a pass that returned nil, a tracked unit is not down exactly
\* if the list of the pass held it, and every unit of the list that has the
\* project label and a name is tracked, whatever down flags the map held
\* when the pass was called
C30_DownIffAbsentAndListedTracked ==
    Returned("nil") =>
        /\ \A id \in DOMAIN LastProjects :
             ~LastProjects[id].IsDown <=> id \in seenIDs
        /\ \A p \in Pairs(containers) : RecordsOf(p) # {}

\* the (project, name) pair of a container of the list that has both
PairOf(rawTain) == <<rawTain.Labels[groupLabel], rawTain.Names[1]>>

\* C31: two containers of a list whose (project, name) pairs differ get
\* different keys from Container.ID, and after a pass that returned nil and
\* removed nothing the unit map holds a record for each pair of the list
C31_KeyIsInjective ==
    /\ \A a, b \in DOMAIN containers :
         (/\ groupLabel \in DOMAIN containers[a].Labels
          /\ groupLabel \in DOMAIN containers[b].Labels
          /\ Len(containers[a].Names) > 0
          /\ Len(containers[b].Names) > 0
          /\ PairOf(containers[a]) # PairOf(containers[b]))
             => ID(NewContainer(containers[a], clock))
                  # ID(NewContainer(containers[b], clock))
    /\ (Returned("nil") /\ evicted = {}) =>
          \A p \in Pairs(containers) : RecordsOf(p) # {}


\* C32: what the signal handler has serialized is the unit map as a
\* completed pass, or the construction, left it: when the signal is handled
\* while a pass runs, the map read is the map that pass was called with,
\* with none of the insertions, flags and deletions of the pass
C32_SavesWhatAPassLeft ==
    savedMap # << >> => (running = 0 \/ savedMap[1] = pre)


\* a step of serveHome: a page is rendered and Refresh stands where it stood
Requested == pc' = pc /\ home' # << >>

\* C33: a request for the page leaves lastGroups, the order of the project
\* list of every group included, lastProjects, lastStats and both history
\* buffers as they were before the request.
C33_RequestLeavesStateAlone ==
    [][Requested => UNCHANGED <<lastGroups, lastProjects, lastStats, histCPU,
                                histTemp>>]_vars


\* what the host gives when every call for a metric gives a value
FullSamples ==
    {m \in MetricSamples :
        /\ m.load # << >> /\ m.memory # << >> /\ m.cpus # << >>
        /\ ~NoCoreSensor(m.temps)}

\* C34: a Refresh that returns an error of the engine (listing the networks,
\* finding the network, listing the containers) has sampled the host: the
\* stats and the two histories are what the sampling of load, memory, CPU
\* percentage and temperature leaves, the CPU percentage and the temperature
\* pushed.
C34_FailedCycleStillSamples ==
    [][RefreshSourceFailed =>
         \E m \in FullSamples :
             /\ lastStats' = SampleStats(lastStats, m)
             /\ histCPU' = SampleHistCPU(histCPU, m)
             /\ histTemp' = SampleHistTemp(histTemp, m)]_vars


\* the first pass of a run has returned, and the run was resumed from a file
\* that holds all of what the handler marshalled
ResumedPass == pc = "sleep" /\ savedMap # << >> /\ saveFile = lastData

\* C35: the pass a controller runs that was resumed from the file saved from
\* a unit map returns what the same pass, on the same list at the same time,
\* returns on the controller that holds that unit map, and leaves the same
\* map: the same keys, each with the same fields. When the engine gives no
\* list, that is the saved map itself.
C35_RestartKeepsReconciliation ==
    ResumedPass =>
        IF err = "listing containers"
        THEN LastProjects = savedMap[1]
        ELSE /\ err = Pass(savedMap[1], cleanCutoff, containers, clock).err
             /\ LastProjects
                  = Pass(savedMap[1], cleanCutoff, containers, clock).map

\* a resumed pass that returned nil has deleted a unit of the saved map,
\* flagged another that was up, and inserted a unit the saved map had not
C35_Witness ==
    /\ ResumedPass
    /\ err = "nil"
    /\ \E a, b \in DOMAIN savedMap[1] :
         /\ a \notin DOMAIN LastProjects
         /\ b \in DOMAIN LastProjects
         /\ ~savedMap[1][b].IsDown
         /\ LastProjects[b].IsDown
    /\ \E c \in DOMAIN LastProjects : c \notin DOMAIN savedMap[1]

\* a resumed pass that returned an error has kept a flag of the saved map
C35_WitnessErr ==
    /\ ResumedPass
    /\ err = "does not have a name"
    /\ \E a \in DOMAIN savedMap[1] :
         /\ savedMap[1][a].IsDown
         /\ a \in DOMAIN LastProjects
         /\ LastProjects[a].IsDown


\* the key of the unit of web
WebKey == ID(NewContainer(rawWeb, 0))

\* no container of the list the pass has been given is the unit id
NotListed(id) ==
    \A k \in DOMAIN containers :
        (/\ groupLabel \in DOMAIN containers[k].Labels
         /\ Len(containers[k].Names) > 0)
            => ID(NewContainer(containers[k], 0)) # id

Tracked(id) == id \in DOMAIN LastProjects

\* the capped clock gets past the cutoff of the unit id
TimeLeft(id) ==
    Tracked(id) => LastProjects[id].LastSeen + cleanCutoff < MaxTime

\* C36: when passes return nil again and again and the clock gets past
\* LastSeen + cleanCutoff of a unit, a unit that from some point on is in no
\* list is from some point on not in the unit map; and a unit that is not in
\* the unit map only comes into it when a list holds it.
C36_DownUnitsAreForgotten ==
    /\ (/\ []<>Returned("nil")
        /\ [] TimeLeft(WebKey)
        /\ <>[] NotListed(WebKey))
           => <>[] ~Tracked(WebKey)
    /\ [][(~Tracked(WebKey) /\ Tracked(WebKey)') => ~NotListed(WebKey)']_vars

\* a pass that returned nil has removed the unit of web, which the pass found
\* flagged as down and which its list did not hold
C36_Witness ==
    /\ Returned("nil")
    /\ WebKey \in DOMAIN pre
    /\ pre[WebKey].IsDown
    /\ NotListed(WebKey)
    /\ ~Tracked(WebKey)

============================================================================
